---- MODULE Spec2Model ----
(***************************************************************************)
(* Retrieval engine of the movie uploader bot (src/download_manager.py).   *)
(*                                                                         *)
(* download_video calls run as coroutines on one asyncio event loop.  An   *)
(* action of this module is what one coroutine does between two of its     *)
(* suspension points (semaphore / lock acquisition, the HTTP response, a   *)
(* chunk of the body, the retry sleep, the offloaded extractor work).      *)
(* Sizes are counted in chunks (chunk_size bytes each).                    *)
(***************************************************************************)
EXTENDS Integers, Sequences, FiniteSets, TLC

\* ------------------------------------------------------------------ bounds
MaxFileSize == 2     \* config.MAX_FILE_SIZE, in chunks
MaxThreads == 1      \* extractor threads running outside download_video
MaxEvents == 1       \* environment faults beyond those one call can meet
DownloadTimeout == 2 \* config.DOWNLOAD_TIMEOUT, in clock ticks
MaxCalls == 4        \* is_allowed calls followed
MaxRequests == 2     \* largest max_requests passed to is_allowed
MaxDuration == 2     \* longest video, in seconds
MaxSide == 2         \* largest frame width and height, in pixels
MaxOps == 4          \* file operations followed
MaxParam == 3        \* longest start parameter, in characters
CodeLen == 2         \* length of a unique code, in characters

\* ------------------------------------------------------- program constants
\* Faulty variant, to test the retry bound: range(self.max_retries + 1).
FourTries == 3 + 1

SemaphoreSlots == 3  \* asyncio.Semaphore(3)
max_retries == 3     \* self.max_retries
retry_delay == 5     \* self.retry_delay
\* File sizes of the relay are counted in KiB.
MAX_FILE_SIZE == 4 * 1024 * 1024 \* config.MAX_FILE_SIZE, the default (4 GiB)
VideoLimit == 50 * 1024          \* 50 * 1024 * 1024 bytes, file_manager.py 66
upload_max_retries == 3          \* FileManager.max_retries
upload_retry_delay == 2          \* FileManager.retry_delay, seconds
cleanup_interval == 300          \* RateLimiter.cleanup_interval, seconds
Hour == 60 * 60                  \* timedelta(hours=1), seconds
Day == 24 * 60 * 60              \* timedelta.seconds leaves whole days out

\* One coroutine more than there are slots: the fewest that make a call wait.
NTasks == SemaphoreSlots + 1
Tasks == 1..NTasks
Ids == 1..NTasks                \* values generate_unique_code(8) may return
MaxBody == MaxFileSize + 1      \* longest body a server streams, in chunks
\* The content-length header: missing (read as 0), within the limit, over it.
\* The code only asks whether it is > 0 and whether it is > MAX_FILE_SIZE.
Declared == {0, 1, MaxFileSize + 1}

Null == "null"       \* Python None
File == "file"       \* a local file path
Raised == "raise"    \* an exception leaves the call
Absent == "absent"   \* key not in active_downloads

\* A URL is described by what is asked of it:
\*   v      : what validators.url(url) does ("true", "failure", "raises")
\*   yt     : some youtube domain is a substring of url.lower()
\*   ext    : some video extension is a substring of url.lower()
\*   suffix : the path of the URL ends with a video extension (then ext holds)
\*   name   : os.path.basename of the URL without query and fragment, as the
\*            parts the code tells apart: <<>> when the path ends with "/"
\* EmbeddedUrl is a URL such as http://host/a.mp4/clip.
YoutubeUrl == [v |-> "true", yt |-> TRUE, ext |-> FALSE, suffix |-> FALSE,
               name |-> <<"watch">>]
YoutubeFileUrl == [v |-> "true", yt |-> TRUE, ext |-> TRUE, suffix |-> TRUE,
                   name |-> <<"clip", ".mp4">>]
DirectUrl == [v |-> "true", yt |-> FALSE, ext |-> TRUE, suffix |-> TRUE,
              name |-> <<"clip", ".mp4">>]
EmbeddedUrl == [v |-> "true", yt |-> FALSE, ext |-> TRUE, suffix |-> FALSE,
                name |-> <<"clip">>]
OtherUrl == [v |-> "true", yt |-> FALSE, ext |-> FALSE, suffix |-> FALSE,
             name |-> <<"page">>]
BadUrl == [v |-> "failure", yt |-> FALSE, ext |-> TRUE, suffix |-> TRUE,
           name |-> <<"clip", ".mp4">>]
OddUrl == [v |-> "raises", yt |-> FALSE, ext |-> FALSE, suffix |-> FALSE,
           name |-> <<"page">>]
Urls == {YoutubeUrl, YoutubeFileUrl, DirectUrl, EmbeddedUrl, OtherUrl, BadUrl,
         OddUrl}
NoUrl == [v |-> "none", yt |-> FALSE, ext |-> FALSE, suffix |-> FALSE,
          name |-> <<>>]

VARIABLES
    pc,         \* pc[t]: where coroutine t is suspended
    url,        \* url[t]: the url argument of the call in flight
    did,        \* did[t]: download_id of the call in flight (0: none)
    attempt,    \* attempt[t]: loop variable of _download_direct
    gets,       \* gets[t]: session.get calls made by the call in flight
    fails,      \* fails[t]: attempts of the call in flight ended by a transient error
    declared,   \* declared[t]: total_size of the response being streamed
    written,    \* written[t]: chunks of the current response written to disk
    onDisk,     \* onDisk[t]: the call in flight has created filepath in output_dir
    slept,      \* slept[t]: the retry sleeps of the call in flight, in seconds
    elapsed,    \* elapsed[t]: clock ticks since the call in flight was made
    waited,     \* waited[t]: clock ticks the call has spent in wait_for
    sem,        \* download_semaphore._value
    semq,       \* coroutines waiting on download_semaphore, FIFO
    lock,       \* holder of yt_dlp_lock (0: free)
    lockq,      \* coroutines waiting on yt_dlp_lock, FIFO
    active,     \* active_downloads: id -> status, or Absent
    info,       \* get_video_info calls whose extractor thread is running
    orphans,    \* extractor threads still running after their wait_for timed out
    events,     \* environment faults injected so far
    env,        \* the environment of this behaviour; it never changes:
                \*   quota     : faults it may inject
                \*   live      : the coroutines that call download_video
                \*   bodymax   : the longest body a server streams, in chunks
                \*   threadmax : extractor threads that may run outside
                \*               download_video
                \*   urls      : the URLs callers pass
                \*   cbraise   : progress callbacks may raise
                \*   observe   : the caller remembers the failure before last
                \*   timed     : the clock is observed (else time is left out
                \*               and a timeout may come at any moment)
                \*   infos     : what extract_info may give
    ret,        \* what the step just taken returned from download_video, if it did
    prev,       \* value and kind of the failed return before that one
    cret,       \* what the step just taken returned from cancel_download
    \* FileManager.upload_to_telegram, one call at a time:
    upc,        \* where the call is suspended
    ufile,      \* the file at file_path
    uattempt,   \* loop variable of the retry loop
    thumbnail_path, \* "none" (None) or "path"
    thumb_file, \* the file thumb_<code>.jpg of this call is in the temp directory
    methods,    \* thumbnail methods run by this call, in order
    gen,        \* the generate_thumbnail call of this call: the runs of its
                \* methods and what it returned
    tries,      \* the send attempts of this call, in order
    uret,       \* what the step just taken returned from upload_to_telegram
    \* RateLimiter; times are seconds since the limiter was made:
    now,        \* datetime.now() at the latest is_allowed call
    requests,   \* self.requests: identity -> list of timestamps
    last_cleanup,   \* self.last_cleanup
    admitted,   \* admitted[u]: times of the calls admitted for u, in order
    calls,      \* is_allowed calls made so far
    lret,       \* the latest is_allowed call: arguments, result, list before
    twin,       \* a second RateLimiter, made at the same moment, and the
                \* result of its latest is_allowed call
    \* FileManager.get_video_duration and get_video_dimensions:
    probe,      \* the latest call: what the tools gave and what it returned
    \* config.py and MovieUploaderBot (main.py):
    config,     \* the Config object, once the module is loaded
    boot,       \* MovieUploaderBot.start: where it is, what it has started
    \* Utils.safe_delete_file:
    files,      \* the paths at which a file exists
    dlog,       \* the file operations so far, in order
    \* Utils.generate_deeplink and Utils.parse_deeplink:
    link        \* the latest call: argument and result

taskVars ==
    <<pc, url, did, attempt, gets, fails, declared, written, onDisk, slept>>
clockVars == <<elapsed, waited>>
gateVars == <<sem, semq, lock, lockq>>
extVars == <<info, orphans>>
envVars == <<events, env>>
downloadVars ==
    <<taskVars, clockVars, gateVars, active, extVars, envVars, ret, prev,
      cret>>
relayVars ==
    <<upc, ufile, uattempt, thumbnail_path, thumb_file, methods, gen, tries,
      uret>>
limiterVars == <<now, requests, last_cleanup, admitted, calls, lret, twin>>
probeVars == <<probe>>
startVars == <<config, boot>>
diskVars == <<files, dlog>>
linkVars == <<link>>
helperVars == <<probeVars, startVars, diskVars, linkVars>>
vars == <<downloadVars, relayVars, limiterVars, helperVars>>

\* What extract_info(url, download=False) gives: nothing, or a dictionary
\* whose filesize is None or a size in chunks and whose filesize_approx is
\* missing, None or a size.
NoneSize == 0 - 1
MissingKey == 0 - 2
Sizes == {NoneSize} \cup Declared
NoInfo == [given |-> FALSE, filesize |-> NoneSize,
           filesize_approx |-> MissingKey]
Infos ==
    {NoInfo} \cup
    [given : {TRUE}, filesize : Sizes,
     filesize_approx : Sizes \cup {MissingKey}]
\* A video within the limit, and one whose size is only estimated, over it.
SmallInfo == [given |-> TRUE, filesize |-> 1, filesize_approx |-> MissingKey]
BigInfo == [given |-> TRUE, filesize |-> NoneSize,
            filesize_approx |-> MaxFileSize + 1]

\* ret is NoRet except in the state a return of download_video leads to, where
\* it holds what the caller received and what the call had done by then.
NoRet == [task |-> 0, url |-> NoUrl, id |-> 0, strategy |-> "none",
          result |-> Null, sres |-> Null, cause |-> "none", gets |-> 0,
          fails |-> 0, declared |-> 0, written |-> 0, file |-> FALSE,
          waited |-> 0, status |-> Absent, final |-> Absent,
          slept |-> <<>>, info |-> NoInfo, downloads |-> 0]
NoPrev == [result |-> Null, cause |-> "none"]
NoCret == [called |-> FALSE, id |-> 0, result |-> FALSE]

\* The failure taxonomy of the retrieval engine.
Kinds == {"InvalidSource", "Oversize", "Timeout", "NetworkError",
          "ExtractionError", "NotFound"}

\* What the caller remembers once a further step is taken.  A step of the
\* retrieval engine leaves the other components as they are.
Remember ==
    /\ prev' = IF env.observe /\ ret.task # 0 /\ ret.cause \in Kinds
               THEN [result |-> ret.result, cause |-> ret.cause]
               ELSE prev
    /\ cret' = NoCret
    /\ UNCHANGED <<relayVars, limiterVars, helperVars>>

\* ------------------------------------------------------------ pure helpers

\* Faulty variant, to test the validation properties: "is not None" in place
\* of "is True" lets the ValidationFailure object through.
validate_url_lax(u) == u.v \in {"true", "failure"}

\* Utils.validate_url: validators.url(url) is True; an exception gives False.
validate_url(u) == u.v = "true"

_is_youtube_url(u) == u.yt

_is_direct_video_url(u) == u.ext

\* Faulty variant, to test that the gate is the extractor's alone: every URL
\* goes through _download_with_ytdlp.
StrategyExtractor(u) == "ytdlp"

\* download_video, lines 93-100: the strategy a URL is given.
Strategy(u) ==
    IF _is_youtube_url(u) THEN "ytdlp"
    ELSE IF _is_direct_video_url(u) THEN "direct"
    ELSE "ytdlp"

\* config.SUPPORTED_VIDEO_FORMATS (config.py 56-58).
SUPPORTED_VIDEO_FORMATS ==
    {".mp4", ".mkv", ".avi", ".mov", ".wmv", ".flv", ".webm"}

\* _extract_filename_from_url (335-352): the basename as it is when a video
\* extension occurs in it, else the basename with ".mp4" added, else None.
\* The sentinel for None is the empty name.
_extract_filename_from_url(u) ==
    IF \E k \in 1..Len(u.name) : u.name[k] \in SUPPORTED_VIDEO_FORMATS
    THEN u.name
    ELSE IF u.name # <<>> THEN Append(u.name, ".mp4")
    ELSE <<>>

\* Utils.clean_filename (utils.py 56-69): the characters <>:"/\|?* go, and an
\* empty result becomes "unnamed_file".
clean_filename(filename) ==
    LET kept == SelectSeq(filename,
                          LAMBDA part : part \notin {"<", ">", ":", "|", "?", "*"})
    IN IF kept = <<>> THEN <<"unnamed_file">> ELSE kept

\* Lines 281-286 of _download_direct: the values filepath may take for a URL,
\* within one output_dir.  Without a name in the URL the file is called
\* video_<6 random characters>.mp4.
Filepaths(u) ==
    IF _extract_filename_from_url(u) # <<>>
    THEN {clean_filename(_extract_filename_from_url(u))}
    ELSE {clean_filename(<<"video_", code, ".mp4">>) : code \in {"A", "1"}}

\* Utils.generate_unique_code(8) draws at random: the value may equal the id of
\* a call in flight, or be another one (t's own number stands for those).
InUse == {did[x] : x \in {y \in Tasks : pc[y] # "idle"}}
generate_unique_code(t) == InUse \cup {t}

\* The value download_video gives its caller (lines 102-118), from the table
\* as it is when the strategy is over.  sres is the strategy's result, thrown
\* says that the try block raised.  A status is assigned by subscript, so a
\* missing key raises KeyError, at line 103/106 and again at line 112 in the
\* handler; the exception then leaves the call.
ExitResult(act, i, sres, thrown) ==
    IF act[i] = Absent THEN Raised
    ELSE IF thrown THEN Null
    ELSE sres

\* The status download_video writes into its record before the finally
\* clause pops it (lines 102-112): none when the key is missing and the
\* assignment raises KeyError.
FinalStatus(act, i, sres, thrown) ==
    IF act[i] = Absent THEN Absent
    ELSE IF thrown THEN "error"
    ELSE IF sres = File THEN "completed"
    ELSE "failed"

\* Faulty variant, to test the size properties: the ceiling is off by a chunk.
TooLargeOff(size) == size > MaxFileSize + 1

\* The size ceiling, lines 181 and 303: size > config.MAX_FILE_SIZE.
TooLarge(size) == size > MaxFileSize

\* Line 180: info.get('filesize') or info.get('filesize_approx', 0).
filesize(inf) ==
    IF inf.filesize \notin {NoneSize, 0} THEN inf.filesize
    ELSE IF inf.filesize_approx = MissingKey THEN 0
    ELSE inf.filesize_approx

\* Faulty variant, to test the upfront rejection: the size is looked at
\* once the download is over.
download_sync_late(inf, raises, exists) ==
    IF raises = "extract" \/ ~inf.given \/ raises = "download"
    THEN [r |-> Null, cause |-> "ExtractionError",
          downloads |-> IF raises = "download" /\ inf.given THEN 1 ELSE 0]
    ELSE IF filesize(inf) = NoneSize
    THEN [r |-> Null, cause |-> "ExtractionError", downloads |-> 1]
    ELSE IF TooLarge(filesize(inf))
    THEN [r |-> Null, cause |-> "Oversize", downloads |-> 1]
    ELSE IF exists THEN [r |-> File, cause |-> "none", downloads |-> 1]
    ELSE [r |-> Null, cause |-> "NotFound", downloads |-> 1]

\* download_sync (lines 171-204), the work offloaded to the executor thread.
\*   inf    : what extract_info gives
\*   raises : "extract" (extract_info raises), "download" (ydl.download or
\*            prepare_filename raises) or "no"
\*   exists : a downloaded file is found afterwards
\* A filesize of None makes the comparison of line 181 raise.  downloads
\* counts the calls of ydl.download.
download_sync(inf, raises, exists) ==
    IF raises = "extract" \/ ~inf.given
    THEN [r |-> Null, cause |-> "ExtractionError", downloads |-> 0]
    ELSE IF filesize(inf) = NoneSize
    THEN [r |-> Null, cause |-> "ExtractionError", downloads |-> 0]
    ELSE IF TooLarge(filesize(inf))
    THEN [r |-> Null, cause |-> "Oversize", downloads |-> 0]
    ELSE IF raises = "download"
    THEN [r |-> Null, cause |-> "ExtractionError", downloads |-> 1]
    ELSE IF exists THEN [r |-> File, cause |-> "none", downloads |-> 1]
    ELSE [r |-> Null, cause |-> "NotFound", downloads |-> 1]

\* A progress callback is the caller's code: it returns, or it raises (one
\* environment fault).  The set of <<raised, faults so far>> outcomes.
Callback(ev) ==
    {<<FALSE, ev>>} \cup
    (IF env.cbraise /\ ev < env.quota THEN {<<TRUE, ev + 1>>} ELSE {})

\* ---------------------------------------------------------- state updates

\* The seconds asyncio.sleep is given before attempt a (a > 0), line 294.
RetrySleep(a) == retry_delay

SetTask(t, p, u, i, a, g, f, d, w, k) ==
    /\ pc' = [pc EXCEPT ![t] = p]
    /\ url' = [url EXCEPT ![t] = u]
    /\ did' = [did EXCEPT ![t] = i]
    /\ attempt' = [attempt EXCEPT ![t] = a]
    /\ gets' = [gets EXCEPT ![t] = g]
    /\ fails' = [fails EXCEPT ![t] = f]
    /\ declared' = [declared EXCEPT ![t] = d]
    /\ written' = [written EXCEPT ![t] = w]
    /\ onDisk' = [onDisk EXCEPT ![t] = k]
    /\ slept' = [slept EXCEPT ![t] =
                    IF p = "idle" THEN <<>>
                    ELSE IF p = "d_sleep" THEN Append(slept[t], RetrySleep(a))
                    ELSE slept[t]]
    /\ elapsed' = [elapsed EXCEPT ![t] = IF p = "idle" THEN 0 ELSE elapsed[t]]
    /\ waited' = [waited EXCEPT ![t] = IF p = "y_run" THEN waited[t] ELSE 0]

\* What a call has done so far.
Ctx(u, i, g, f, d, w, k) ==
    [url |-> u, id |-> i, gets |-> g, fails |-> f, declared |-> d,
     written |-> w, file |-> k, info |-> NoInfo, downloads |-> 0]
Here(t) ==
    Ctx(url[t], did[t], gets[t], fails[t], declared[t], written[t], onDisk[t])

\* Coroutine t suspends at p; act, semv, ev are the table, the semaphore value
\* and the fault count it leaves behind.
Suspend(t, p, c, a, act, semv, ev) ==
    /\ SetTask(t, p, c.url, c.id, a, c.gets, c.fails, c.declared, c.written,
               c.file)
    /\ active' = act
    /\ sem' = semv
    /\ events' = ev
    /\ ret' = NoRet
    /\ Remember

\* Faulty variant, to test admission: the slot is not given back.
LeaveHoldingSlot(t, c, strat, act, semv, ev, sres, thrown, cause) ==
    /\ SetTask(t, "idle", NoUrl, 0, 0, 0, 0, 0, 0, FALSE)
    /\ active' = [act EXCEPT ![c.id] = Absent]
    /\ sem' = semv
    /\ events' = ev
    /\ Remember
    /\ ret' = [task |-> t, url |-> c.url, id |-> c.id, strategy |-> strat,
               result |-> ExitResult(act, c.id, sres, thrown),
               sres |-> sres, cause |-> cause, gets |-> c.gets,
               fails |-> c.fails, declared |-> c.declared,
               written |-> c.written, file |-> c.file,
               waited |-> waited[t], status |-> act[c.id],
               final |-> FinalStatus(act, c.id, sres, thrown),
               slept |-> slept[t], info |-> c.info,
               downloads |-> c.downloads]

\* Faulty variant, to test the job table: the pop sits at the end of the try
\* block, not in a finally clause, so an exception skips it.
LeaveKeepRecord(t, c, strat, act, semv, ev, sres, thrown, cause) ==
    /\ SetTask(t, "idle", NoUrl, 0, 0, 0, 0, 0, 0, FALSE)
    /\ active' = IF thrown THEN act ELSE [act EXCEPT ![c.id] = Absent]
    /\ sem' = semv + 1
    /\ events' = ev
    /\ Remember
    /\ ret' = [task |-> t, url |-> c.url, id |-> c.id, strategy |-> strat,
               result |-> ExitResult(act, c.id, sres, thrown),
               sres |-> sres, cause |-> cause, gets |-> c.gets,
               fails |-> c.fails, declared |-> c.declared,
               written |-> c.written, file |-> c.file,
               waited |-> waited[t], status |-> act[c.id],
               final |-> FinalStatus(act, c.id, sres, thrown),
               slept |-> slept[t], info |-> c.info,
               downloads |-> c.downloads]

\* The end of download_video (lines 102-118 and the exit of the async with):
\* status, pop, release of the slot, return.
Leave(t, c, strat, act, semv, ev, sres, thrown, cause) ==
    /\ SetTask(t, "idle", NoUrl, 0, 0, 0, 0, 0, 0, FALSE)
    /\ active' = [act EXCEPT ![c.id] = Absent]
    /\ sem' = semv + 1
    /\ events' = ev
    /\ Remember
    /\ ret' = [task |-> t, url |-> c.url, id |-> c.id, strategy |-> strat,
               result |-> ExitResult(act, c.id, sres, thrown),
               sres |-> sres, cause |-> cause, gets |-> c.gets,
               fails |-> c.fails, declared |-> c.declared,
               written |-> c.written, file |-> c.file,
               waited |-> waited[t], status |-> act[c.id],
               final |-> FinalStatus(act, c.id, sres, thrown),
               slept |-> slept[t], info |-> c.info,
               downloads |-> c.downloads]

\* One environment fault: a transient network error, a status other than 200,
\* an exception of another class, a timeout, a repeated random id.
Fault(ev) == IF ev < env.quota THEN {ev + 1} ELSE {}

\* --------------------------------------------- _download_direct (272-333)

\* Faulty variant, to test the failure value: line 329 returns filepath.
NextAttemptFile(t, c, a, act, semv, ev) ==
    IF a >= max_retries
    THEN Leave(t, c, "direct", act, semv, ev, File, FALSE, "NotFound")
    ELSE \E cb \in Callback(ev) :
            IF cb[1]
            THEN Leave(t, c, "direct", act, semv, cb[2], Null, FALSE, "Callback")
            ELSE Suspend(t, "d_sleep", c, a, act, semv, cb[2])

\* The for loop goes on to attempt a (after a continue), lines 289-296.
\* With the attempts used up the loop ends and line 329 returns None.
NextAttempt(t, c, a, act, semv, ev) ==
    IF a >= max_retries
    THEN Leave(t, c, "direct", act, semv, ev, Null, FALSE, "NotFound")
    ELSE \E cb \in Callback(ev) :
            IF cb[1]
            THEN Leave(t, c, "direct", act, semv, cb[2], Null, FALSE, "Callback")
            ELSE Suspend(t, "d_sleep", c, a, act, semv, cb[2])

\* except (ClientError, TimeoutError), lines 323-327: the last attempt raises
\* again, into the handler of line 331.
Transient(t, c, a, ev) ==
    LET c2 == [c EXCEPT !.fails = c.fails + 1] IN
    IF a = max_retries - 1
    THEN Leave(t, c2, "direct", active, sem, ev, Null, FALSE, "NetworkError")
    ELSE NextAttempt(t, c2, a + 1, active, sem, ev)

\* Lines 275-296 at attempt 0: up to the first session.get.
DirectStart(t, c, act, semv, ev) ==
    \E cb \in Callback(ev) :
        IF cb[1]
        THEN Leave(t, c, "direct", act, semv, cb[2], Null, FALSE, "Callback")
        ELSE Suspend(t, "d_get", [c EXCEPT !.gets = 1], 0, act, semv, cb[2])

\* The response of session.get arrives, or the request fails (296-309).
DirectResponse(t) ==
    /\ pc[t] = "d_get"
    /\ UNCHANGED <<semq, lock, lockq, extVars, env>>
    /\ LET c == Here(t)
           a == attempt[t]
       IN \/ \E ev \in Fault(events) : Transient(t, c, a, ev)
          \/ \E ev \in Fault(events) :    \* response.status != 200: continue
                NextAttempt(t, c, a + 1, active, sem, ev)
          \/ \E ev \in Fault(events) :    \* any other exception, line 331
                Leave(t, c, "direct", active, sem, ev, Null, FALSE, "Other")
          \/ \E len \in Declared :        \* status 200, content-length len
                IF TooLarge(len)
                THEN Leave(t, [c EXCEPT !.declared = len], "direct", active,
                           sem, events, Null, FALSE, "Oversize")
                ELSE Suspend(t, "d_body",
                             [c EXCEPT !.declared = len, !.written = 0,
                                       !.file = TRUE],   \* open(.., 'wb')
                             a, active, sem, events)

\* asyncio.sleep(self.retry_delay) is over: the next session.get (294-296).
DirectSleep(t) ==
    /\ pc[t] = "d_sleep"
    /\ UNCHANGED <<semq, lock, lockq, extVars, env>>
    /\ Suspend(t, "d_get",
               [Here(t) EXCEPT !.gets = gets[t] + 1, !.declared = 0,
                               !.written = 0],
               attempt[t], active, sem, events)

\* One step of the streaming loop (309-321): a chunk is read and written, the
\* body ends, or the read fails.
DirectChunk(t) ==
    /\ pc[t] = "d_body"
    /\ UNCHANGED <<semq, lock, lockq, extVars, env>>
    /\ LET c == Here(t)
           a == attempt[t]
       IN \/ /\ written[t] < env.bodymax
             /\ LET c2 == [c EXCEPT !.written = c.written + 1] IN
                \E cb \in Callback(events) :
                    IF cb[1] /\ declared[t] > 0
                    THEN Leave(t, c2, "direct", active, sem, cb[2], Null,
                               FALSE, "Callback")
                    ELSE Suspend(t, "d_body", c2, a, active, sem, events)
          \/ \E cb \in Callback(events) :      \* end of the body: line 318
                IF cb[1]
                THEN Leave(t, c, "direct", active, sem, cb[2], Null, FALSE,
                           "Callback")
                ELSE Leave(t, c, "direct", active, sem, cb[2], File, FALSE,
                           "none")
          \/ \E ev \in Fault(events) : Transient(t, c, a, ev)
          \/ \E ev \in Fault(events) :
                Leave(t, c, "direct", active, sem, ev, Null, FALSE, "Other")

\* ----------------------------------------- _download_with_ytdlp (140-233)

\* With the gate held: lines 145-210, up to the await of wait_for.  A raising
\* callback is caught at line 231; leaving the async with frees the gate.
YtStart(t, c, act, semv, ev) ==
    \E cb \in Callback(ev) :
        IF cb[1]
        THEN /\ Leave(t, c, "ytdlp", act, semv, cb[2], Null, FALSE, "Callback")
             /\ lock' = 0
        ELSE /\ Suspend(t, "y_run", c, 0, act, semv, cb[2])
             /\ lock' = t

\* async with self.yt_dlp_lock, line 143: taken at once when free and nobody
\* waits, else the coroutine queues.
YtEnter(t, c, act, semv, ev) ==
    IF lock = 0 /\ lockq = <<>>
    THEN YtStart(t, c, act, semv, ev) /\ lockq' = lockq
    ELSE /\ Suspend(t, "wait_lock", c, 0, act, semv, ev)
         /\ lockq' = Append(lockq, t)
         /\ lock' = lock

\* The gate is handed to the first waiter.
LockAdmit(t) ==
    /\ pc[t] = "wait_lock"
    /\ lock = 0
    /\ lockq # <<>> /\ Head(lockq) = t
    /\ lockq' = Tail(lockq)
    /\ YtStart(t, Here(t), active, sem, events)
    /\ UNCHANGED <<semq, extVars, env>>

\* Faulty variant, to test the freedom from deadlock: the call returns with
\* the gate still taken.
YtDoneHoldsGate(t) ==
    /\ pc[t] = "y_run"
    /\ lock' = lock
    /\ UNCHANGED <<semq, lockq, extVars, env>>
    /\ \E inf \in env.infos, raises \in {"no", "extract", "download"},
          exists \in BOOLEAN :
         LET r == download_sync(inf, raises, exists)
             c == [Here(t) EXCEPT !.info = inf, !.downloads = r.downloads]
         IN
         IF r.r = Null
         THEN \E ev \in Fault(events) :
                Leave(t, c, "ytdlp", active, sem, ev, Null, FALSE, r.cause)
         ELSE Leave(t, c, "ytdlp", active, sem, events, File, FALSE, "none")

\* The executor thread is done and wait_for returns its value (207-226).
YtDone(t) ==
    /\ pc[t] = "y_run"
    /\ lock' = 0
    /\ UNCHANGED <<semq, lockq, extVars, env>>
    /\ \E inf \in env.infos, raises \in {"no", "extract", "download"},
          exists \in BOOLEAN :
         LET r == download_sync(inf, raises, exists)
             c == [Here(t) EXCEPT !.info = inf, !.downloads = r.downloads]
         IN
         IF r.r = Null
         THEN \E ev \in Fault(events) :
                Leave(t, c, "ytdlp", active, sem, ev, Null, FALSE, r.cause)
         ELSE \/ \E cb \in Callback(events) :
                   IF cb[1]
                   THEN Leave(t, c, "ytdlp", active, sem, cb[2], Null,
                              FALSE, "Callback")
                   ELSE Leave(t, c, "ytdlp", active, sem, cb[2], File,
                              FALSE, "none")
              \/ \E ev \in Fault(events) :     \* os.rename raises: line 231
                   Leave(t, c, "ytdlp", active, sem, ev, Null, FALSE,
                         "Other")

\* Faulty variant, to test the release on timeout: the gate stays taken.
YtTimeoutHoldsGate(t) ==
    /\ pc[t] = "y_run"
    /\ env.timed => waited[t] = DownloadTimeout
    /\ info + orphans < env.threadmax
    /\ lock' = lock
    /\ orphans' = orphans + 1
    /\ UNCHANGED <<semq, lockq, info, env>>
    /\ \E ev \in Fault(events) :
          Leave(t, Here(t), "ytdlp", active, sem, ev, Null, FALSE, "Timeout")

\* wait_for gives up after DOWNLOAD_TIMEOUT (228-230).  The executor thread
\* cannot be cancelled: it keeps running.
YtTimeout(t) ==
    /\ pc[t] = "y_run"
    /\ env.timed => waited[t] = DownloadTimeout
    /\ info + orphans < env.threadmax
    /\ lock' = 0
    /\ orphans' = orphans + 1
    /\ UNCHANGED <<semq, lockq, info, env>>
    /\ \E ev \in Fault(events) :
          Leave(t, Here(t), "ytdlp", active, sem, ev, Null, FALSE, "Timeout")

\* One tick of the clock.  wait_for fires at its deadline: no tick passes
\* while a call has waited DOWNLOAD_TIMEOUT.  The clock is followed for as
\* long as two timeouts in a row take.
Tick ==
    /\ env.timed
    /\ \E t \in Tasks : pc[t] # "idle"
    /\ \A t \in Tasks : pc[t] = "y_run" => waited[t] < DownloadTimeout
    /\ \A t \in Tasks : elapsed[t] < 2 * DownloadTimeout
    /\ elapsed' = [t \in Tasks |->
                     IF pc[t] # "idle" THEN elapsed[t] + 1 ELSE 0]
    /\ waited' = [t \in Tasks |->
                    IF pc[t] = "y_run" THEN waited[t] + 1 ELSE 0]
    /\ UNCHANGED <<taskVars, gateVars, active, extVars, envVars>>
    /\ ret' = NoRet
    /\ Remember

\* An abandoned extractor thread comes to its end.
OrphanDone ==
    /\ orphans > 0
    /\ orphans' = orphans - 1
    /\ UNCHANGED <<taskVars, clockVars, gateVars, active, info, envVars>>
    /\ ret' = NoRet
    /\ Remember

\* ----------------------------------------------- get_video_info (354-403)

\* A valid URL: extract_info_sync is handed to the executor (357-379).
InfoCall ==
    /\ info + orphans < env.threadmax
    /\ \E u \in env.urls : validate_url(u)
    /\ info' = info + 1
    /\ UNCHANGED <<taskVars, clockVars, gateVars, active, orphans, envVars>>
    /\ ret' = NoRet
    /\ Remember

InfoDone ==
    /\ info > 0
    /\ info' = info - 1
    /\ UNCHANGED <<taskVars, clockVars, gateVars, active, orphans, envVars>>
    /\ ret' = NoRet
    /\ Remember

\* wait_for(..., timeout=60) gives up; the thread keeps running (398-400).
InfoTimeout ==
    /\ info > 0
    /\ info' = info - 1
    /\ orphans' = orphans + 1
    /\ UNCHANGED <<taskVars, clockVars, gateVars, active, envVars>>
    /\ ret' = NoRet
    /\ Remember

\* ----------------------------------------------- download_video (68-118)

\* Faulty variant, to test the statuses of the job table: the record says
\* 'downloading' once the strategy runs.
EnterDownloading(t, c, ev) ==
    LET act == [active EXCEPT ![c.id] = "downloading"]
        semv == sem - 1
    IN \E cb \in Callback(ev) :
         IF cb[1]
         THEN /\ Leave(t, c, "none", act, semv, cb[2], Null, TRUE, "Callback")
              /\ UNCHANGED <<lock, lockq>>
         ELSE IF Strategy(c.url) = "ytdlp"
         THEN YtEnter(t, c, act, semv, cb[2])
         ELSE DirectStart(t, c, act, semv, cb[2]) /\ UNCHANGED <<lock, lockq>>

\* Inside the async with (79-100): register the job, then the strategy up to
\* its first suspension point.
Enter(t, c, ev) ==
    LET act == [active EXCEPT ![c.id] = "starting"]
        semv == sem - 1
    IN \E cb \in Callback(ev) :
         IF cb[1]
         THEN /\ Leave(t, c, "none", act, semv, cb[2], Null, TRUE, "Callback")
              /\ UNCHANGED <<lock, lockq>>
         ELSE IF Strategy(c.url) = "ytdlp"
         THEN YtEnter(t, c, act, semv, cb[2])
         ELSE DirectStart(t, c, act, semv, cb[2]) /\ UNCHANGED <<lock, lockq>>

\* Faulty variant, to test the bound: acquire lets a caller in at value 0.
SemFreeLoose == sem >= 0 /\ semq = <<>>

\* asyncio.Semaphore: acquire returns at once when a slot is free and nobody
\* waits; otherwise the caller queues behind the waiters.
SemFree == sem > 0 /\ semq = <<>>

\* A call of download_video (68-79).
Call(t) ==
    /\ t \in env.live
    /\ pc[t] = "idle"
    /\ \A x \in env.live : x < t => pc[x] # "idle"   \* the first free coroutine
    /\ UNCHANGED <<extVars, env>>
    /\ \E u \in env.urls :
         IF ~validate_url(u)
         THEN /\ ret' = [NoRet EXCEPT !.task = t, !.url = u,
                                      !.cause = "InvalidSource"]
              /\ Remember
              /\ UNCHANGED <<taskVars, clockVars, gateVars, active, events>>
         ELSE \E i \in generate_unique_code(t) :
              \E ev \in (IF i \in InUse THEN Fault(events) ELSE {events}) :
                IF SemFree
                THEN Enter(t, Ctx(u, i, 0, 0, 0, 0, FALSE), ev) /\ semq' = semq
                ELSE /\ Suspend(t, "wait_sem", Ctx(u, i, 0, 0, 0, 0, FALSE), 0,
                                active, sem, ev)
                     /\ semq' = Append(semq, t)
                     /\ UNCHANGED <<lock, lockq>>

\* A released slot goes to the first waiter, which enters the async with.
Admit(t) ==
    /\ pc[t] = "wait_sem"
    /\ sem > 0
    /\ semq # <<>> /\ Head(semq) = t
    /\ semq' = Tail(semq)
    /\ Enter(t, Here(t), events)
    /\ UNCHANGED <<extVars, env>>

\* ---------------------------------------------- cancel_download (468-473)

\* Faulty variant, to test that cancellation is advisory: the cancelled job
\* gives its slot back at once.
CancelDownloadFrees ==
    \E i \in Ids :
        /\ active' = IF active[i] # Absent
                      THEN [active EXCEPT ![i] = "cancelled"]
                      ELSE active
        /\ sem' = IF active[i] # Absent THEN sem + 1 ELSE sem
        /\ cret' = [called |-> TRUE, id |-> i, result |-> active[i] # Absent]
        /\ ret' = NoRet
        /\ prev' = prev
        /\ UNCHANGED <<taskVars, clockVars, semq, lock, lockq, extVars, envVars>>
        /\ UNCHANGED <<relayVars, limiterVars, helperVars>>

\* cancel_download(i), called from outside the coroutines: a key of the table
\* has its status set and True is returned; any other id gives False.
CancelDownload ==
    \E i \in Ids :
        /\ active' = IF active[i] # Absent
                      THEN [active EXCEPT ![i] = "cancelled"]
                      ELSE active
        /\ cret' = [called |-> TRUE, id |-> i, result |-> active[i] # Absent]
        /\ ret' = NoRet
        /\ prev' = prev
        /\ UNCHANGED <<taskVars, clockVars, gateVars, extVars, envVars>>
        /\ UNCHANGED <<relayVars, limiterVars, helperVars>>

\* ------------------------------- FileManager.upload_to_telegram (36-92)

\* A file is described by what the code asks of it: os.path.exists, getsize,
\* Utils.is_video_file (the suffix is a video extension).
UploadSizes ==
    {0, 1, VideoLimit, VideoLimit + 1, MAX_FILE_SIZE, MAX_FILE_SIZE + 1}
UploadFiles ==
    {f \in [exists : BOOLEAN, size : UploadSizes, video : BOOLEAN] :
        ~f.exists => f.size = 0}
NoFile == [exists |-> FALSE, size |-> 0, video |-> FALSE]

\* How a run of the ffmpeg subprocess ends: the tool is not found, another
\* exception is raised, communicate() outlasts 30 s, or the process exits;
\* returncode is its exit code and output says that output_path exists
\* afterwards.
FfmpegRuns ==
    {r \in [how : {"missing", "raises", "timeout", "exit"},
            returncode : {0, 1}, output : BOOLEAN] :
        /\ r.how # "exit" => r.returncode = 1
        /\ r.how = "missing" => ~r.output}
\* How extract_frame ends: it raises, the capture does not open, read() gives
\* no frame, or the frame is written.
OpencvRuns == {"raises", "closed", "noframe", "frame"}
NoRun == [how |-> "none", returncode |-> 1, output |-> FALSE]
NoGen == [called |-> FALSE, ffmpeg |-> NoRun, opencv |-> "none",
          result |-> "none"]

\* Faulty variant, to test the fallback: the exit code alone decides.
FfmpegExitOnly(r) == r.how = "exit" /\ r.returncode = 0

\* _generate_thumbnail_ffmpeg (171-207): True only at line 200.
_generate_thumbnail_ffmpeg(r) ==
    r.how = "exit" /\ r.returncode = 0 /\ r.output

\* _generate_thumbnail_opencv (209-251): True only at line 246.
_generate_thumbnail_opencv(r) == r = "frame"

NoUret == [called |-> FALSE, file |-> NoFile, result |-> Null,
           methods |-> <<>>, tries |-> <<>>, thumb_file |-> FALSE,
           gen |-> NoGen]

\* Faulty variant, to test the preconditions: the empty-file test is missing.
AcceptableEmpty(f) == f.exists /\ ~(f.size > MAX_FILE_SIZE)

\* Lines 40-52: the file exists, is not over the maximum and is not empty.
Acceptable(f) == f.exists /\ ~(f.size > MAX_FILE_SIZE) /\ ~(f.size = 0)

is_video_file(f) == f.video

\* Faulty variant, to test the transport: >= in place of >.
TransportFrom(size) == IF size >= VideoLimit THEN "document" ELSE "video"

\* Lines 66-69: the transport follows from file_size alone.
Transport(size) == IF size > VideoLimit THEN "document" ELSE "video"

\* Faulty variant, to test the retry policy: every error is retried.
AfterSendRetryAll(outcome, a) ==
    IF outcome = "ok" THEN "return"
    ELSE IF a < upload_max_retries - 1 THEN "sleep"
    ELSE "giveup"

\* Faulty variant, to test the return value: no except Exception clause.
AfterSendRaise(outcome, a) ==
    IF outcome = "ok" THEN "return"
    ELSE IF outcome = "transient"
    THEN IF a < upload_max_retries - 1 THEN "sleep" ELSE "giveup"
    ELSE "raise"

\* Lines 71-85: what follows the send of attempt a.  The bot API returns a
\* Message ("ok") or raises: NetworkError/TimedOut ("transient") or another
\* exception ("other").
AfterSend(outcome, a) ==
    IF outcome = "ok" THEN "return"
    ELSE IF outcome = "transient"
    THEN IF a < upload_max_retries - 1 THEN "sleep" ELSE "giveup"
    ELSE "break"

\* Faulty variant, to test the backoff: the attempt number is not a factor.
UploadSleepFlat(a) == upload_retry_delay

\* The seconds asyncio.sleep is given after the failure of attempt a (the
\* loop variable, from 0), line 78.
UploadSleep(a) == upload_retry_delay * (a + 1)

\* Utils.safe_delete_file (utils.py 135-144) in the finally clause, lines
\* 87-90: the values thumb_file may have afterwards.  os.remove may raise;
\* the exception is logged and the file stays.
Deleted(tp, tf) ==
    IF tp = "none" THEN {tf}
    ELSE IF tf THEN {FALSE, TRUE}
    ELSE {FALSE}

\* upload_to_telegram is over (finally clause included).
UploadReturn(f, res, ms, tr, tf, g) ==
    /\ upc' = "idle"
    /\ ufile' = NoFile
    /\ uattempt' = 0
    /\ thumbnail_path' = "none"
    /\ thumb_file' = FALSE
    /\ methods' = <<>>
    /\ gen' = NoGen
    /\ tries' = <<>>
    /\ uret' = [called |-> TRUE, file |-> f, result |-> res, methods |-> ms,
                tries |-> tr, thumb_file |-> tf, gen |-> g]

\* Attempt a up to the await of the send (lines 60-69, 94-148): the progress
\* callback, the choice of the transport, the metadata, the files opened.
BeginAttempt(f, a, tp, tf, ms, tr, g) ==
    \/ \E tf2 \in Deleted(tp, tf) :       \* callback or open() raises: break
          UploadReturn(f, Null, ms, tr, tf2, g)
    \/ /\ upc' = "send"
       /\ ufile' = f
       /\ uattempt' = a
       /\ thumbnail_path' = tp
       /\ thumb_file' = tf
       /\ methods' = ms
       /\ gen' = g
       /\ tries' = Append(tr, [transport |-> Transport(f.size),
                               meta |-> Transport(f.size) = "video",
                               attached |-> (tp # "none" /\ tf),
                               outcome |-> "pending", slept |-> 0])
       /\ uret' = NoUret

\* A call of upload_to_telegram up to its first suspension point (36-57).
UploadCall ==
    /\ upc = "idle"
    /\ UNCHANGED <<downloadVars, limiterVars, helperVars>>
    /\ \E f \in UploadFiles :
         IF ~Acceptable(f)
         THEN UploadReturn(f, Null, <<>>, <<>>, FALSE, NoGen)
         ELSE IF is_video_file(f)
         THEN /\ upc' = "ffmpeg"
              /\ ufile' = f
              /\ uret' = NoUret
              /\ UNCHANGED <<uattempt, thumbnail_path, thumb_file, methods, gen,
                             tries>>
         ELSE BeginAttempt(f, 0, "none", FALSE, <<>>, <<>>, NoGen)

\* _generate_thumbnail_ffmpeg is over (150-158, 171-207): it made the
\* thumbnail and generate_thumbnail returns its path; or it failed, with
\* output_path written or not, and the second method is tried.
ThumbFfmpeg ==
    /\ upc = "ffmpeg"
    /\ UNCHANGED <<downloadVars, limiterVars, helperVars>>
    /\ \E r \in FfmpegRuns :
         LET g == [called |-> TRUE, ffmpeg |-> r, opencv |-> "none",
                   result |-> "pending"]
         IN IF _generate_thumbnail_ffmpeg(r)
            THEN BeginAttempt(ufile, 0, "path", TRUE, <<"ffmpeg">>, <<>>,
                              [g EXCEPT !.result = "path"])
            ELSE /\ upc' = "opencv"
                 /\ thumb_file' = r.output
                 /\ methods' = <<"ffmpeg">>
                 /\ gen' = g
                 /\ uret' = NoUret
                 /\ UNCHANGED <<ufile, uattempt, thumbnail_path, tries>>

\* _generate_thumbnail_opencv is over (160-169, 209-251): the frame was
\* written, or the method failed and generate_thumbnail returns None.
ThumbOpencv ==
    /\ upc = "opencv"
    /\ UNCHANGED <<downloadVars, limiterVars, helperVars>>
    /\ \E r \in OpencvRuns :
         IF _generate_thumbnail_opencv(r)
         THEN BeginAttempt(ufile, 0, "path", TRUE, <<"ffmpeg", "opencv">>,
                           <<>>, [gen EXCEPT !.opencv = r, !.result = "path"])
         ELSE BeginAttempt(ufile, 0, "none", thumb_file,
                           <<"ffmpeg", "opencv">>, <<>>,
                           [gen EXCEPT !.opencv = r, !.result = "none"])

\* The send of the current attempt is over (lines 71-92).
SendDone ==
    /\ upc = "send"
    /\ UNCHANGED <<downloadVars, limiterVars, helperVars>>
    /\ \E outcome \in {"ok", "transient", "other"} :
         LET tr == [tries EXCEPT ![Len(tries)].outcome = outcome]
             then == AfterSend(outcome, uattempt)
         IN IF then = "sleep"
            THEN /\ upc' = "sleep"
                 /\ tries' = [tr EXCEPT ![Len(tr)].slept = UploadSleep(uattempt)]
                 /\ uret' = NoUret
                 /\ UNCHANGED <<ufile, uattempt, thumbnail_path, thumb_file,
                                methods, gen>>
            ELSE \E tf \in Deleted(thumbnail_path, thumb_file) :
                    UploadReturn(ufile,
                                 IF then = "return" THEN "id"
                                 ELSE IF then = "raise" THEN Raised
                                 ELSE Null,
                                 methods, tr, tf, gen)

\* asyncio.sleep of line 78 is over: continue runs the finally clause, then
\* the next attempt begins.
UploadSleepDone ==
    /\ upc = "sleep"
    /\ UNCHANGED <<downloadVars, limiterVars, helperVars>>
    /\ \E tf \in Deleted(thumbnail_path, thumb_file) :
          BeginAttempt(ufile, uattempt + 1, thumbnail_path, tf, methods, tries,
                       gen)

\* --------------- get_video_duration, get_video_dimensions (270-353)

\* int(x) of the quotient n / d, d > 0: the fraction is cut off, towards zero.
IntOf(n, d) == IF n >= 0 THEN n \div d ELSE -((-n) \div d)

\* How a run of ffprobe ends: create_subprocess_exec or communicate raises
\* (the tool is missing), or the process exits with returncode and stdout.
\* stdout is a number, in half seconds, or text float() cannot read.
ProbeOutputs ==
    {[number |-> FALSE, halves |-> 0]} \cup
    {[number |-> TRUE, halves |-> h] : h \in -1..(2 * MaxDuration)}
ProbeRuns ==
    {r \in [how : {"raises", "exit"}, returncode : {0, 1},
            stdout : ProbeOutputs] :
        r.how = "raises" => (r.returncode = 1 /\ ~r.stdout.number)}
\* What cv2.VideoCapture gives for the duration: it raises, does not open,
\* or reports fps and frame_count (which may be 0 or negative).
DurationCaptures ==
    {c \in [how : {"raises", "closed", "open"}, fps : 0..2,
            frame_count : -1..(2 * MaxDuration)] :
        c.how # "open" => (c.fps = 0 /\ c.frame_count = 0)}
\* What cv2.VideoCapture gives for the dimensions.
SizeCaptures ==
    {c \in [how : {"raises", "closed", "open"}, width : 0..MaxSide,
            height : 0..MaxSide] :
        c.how # "open" => (c.width = 0 /\ c.height = 0)}
NoProbeRun ==
    [how |-> "none", returncode |-> 1,
     stdout |-> [number |-> FALSE, halves |-> 0]]
NoCapture == [how |-> "none", fps |-> 0, frame_count |-> 0]
NoProbe == [fn |-> "none", ffprobe |-> NoProbeRun, opencv |-> NoCapture,
            size |-> [how |-> "none", width |-> 0, height |-> 0],
            raised |-> FALSE, duration |-> 0, width |-> 0, height |-> 0]

\* _get_duration_ffmpeg (285-311): int(float(stdout)) when the exit code is
\* 0 and stdout is a number; every exception is passed over and 0 returned.
_get_duration_ffmpeg(r) ==
    IF r.how = "exit" /\ r.returncode = 0 /\ r.stdout.number
    THEN IntOf(r.stdout.halves, 2)
    ELSE 0

\* _get_duration_opencv (313-333): int(frame_count / fps) when fps > 0.
_get_duration_opencv(c) ==
    IF c.how = "open" /\ c.fps > 0 THEN IntOf(c.frame_count, c.fps) ELSE 0

\* Faulty variant, to test the order of the methods: both are always run and
\* the second one wins when it gives a duration.
get_video_duration_both(r, c) ==
    IF _get_duration_opencv(c) > 0
    THEN [duration |-> _get_duration_opencv(c), opencv |-> c]
    ELSE [duration |-> _get_duration_ffmpeg(r), opencv |-> c]

\* get_video_duration (270-283): the second method is run only at line 279.
get_video_duration(r, c) ==
    IF _get_duration_ffmpeg(r) > 0
    THEN [duration |-> _get_duration_ffmpeg(r), opencv |-> NoCapture]
    ELSE [duration |-> _get_duration_opencv(c), opencv |-> c]

\* get_video_dimensions (335-353).
get_video_dimensions(c) ==
    IF c.how = "open" THEN <<c.width, c.height>> ELSE <<0, 0>>

GetVideoDuration ==
    /\ \E r \in ProbeRuns, c \in DurationCaptures :
          probe' = [NoProbe EXCEPT !.fn = "duration", !.ffprobe = r,
                        !.opencv = get_video_duration(r, c).opencv,
                        !.duration = get_video_duration(r, c).duration]
    /\ UNCHANGED <<downloadVars, relayVars, limiterVars, startVars, diskVars,
                 linkVars>>

GetVideoDimensions ==
    /\ \E c \in SizeCaptures :
          probe' = [NoProbe EXCEPT !.fn = "dimensions", !.size = c,
                        !.width = get_video_dimensions(c)[1],
                        !.height = get_video_dimensions(c)[2]]
    /\ UNCHANGED <<downloadVars, relayVars, limiterVars, startVars, diskVars,
                 linkVars>>

\* ------------------------------------ Config (config.py), main.py 23-150

\* An environment variable is set to a text or not set.  The text of
\* ADMIN_IDS is given by its parts between commas ('' has one empty part).
Unset(default) == [set |-> FALSE, value |-> default]
Set(text) == [set |-> TRUE, value |-> text]
getenv(var, default) == IF var.set THEN var.value ELSE default

Tokens == {"", "7", " 8", "x", "-5"}
Lists == {<<a>> : a \in Tokens} \cup {<<a, b>> : a \in Tokens, b \in Tokens}
OsEnvs ==
    [BOT_TOKEN : {Unset(""), Set(""), Set("token")},
     PRIVATE_CHANNEL_ID :
        {Unset(""), Set(""), Set("0"), Set("-1001"), Set("abc")},
     ADMIN_IDS : {Unset(<<>>)} \cup {Set(l) : l \in Lists},
     MONGODB_URL : {Unset(""), Set("")}]

\* str.strip, str.isdigit and int on the texts above.
strip(text) == IF text = " 8" THEN "8" ELSE text
isdigit(text) == text \in {"0", "7", "8"}
IsInt(text) == text \in {"0", "7", "8", "-5", "-1001"}
int(text) ==
    CASE text = "0" -> 0
      [] text = "7" -> 7
      [] text = "8" -> 8
      [] text = "-5" -> -5
      [] text = "-1001" -> -1001

\* Lines 38-41: the parts that are digits once stripped.
AdminIds(parts) ==
    LET kept == SelectSeq(parts, LAMBDA x : strip(x) # "" /\ isdigit(strip(x)))
    IN [i \in 1..Len(kept) |-> int(strip(kept[i]))]

NoConfig == [loaded |-> FALSE, BOT_TOKEN |-> "", MONGODB_URL |-> "",
             PRIVATE_CHANNEL_ID |-> 0, ADMIN_IDS |-> <<>>]

\* Config() (lines 27-46), for an environment whose PRIVATE_CHANNEL_ID int()
\* can read.
Config(os) ==
    [loaded |-> TRUE,
     BOT_TOKEN |-> getenv(os.BOT_TOKEN, ""),
     MONGODB_URL |-> getenv(os.MONGODB_URL, "mongodb://localhost:27017"),
     PRIVATE_CHANNEL_ID |-> int(getenv(os.PRIVATE_CHANNEL_ID, "0")),
     ADMIN_IDS |-> AdminIds(getenv(os.ADMIN_IDS, <<"">>))]

\* Faulty variant, to test the mandatory fields: ADMIN_IDS is not required.
validate_without_admins(c) ==
    ~(c.BOT_TOKEN = "" \/ c.MONGODB_URL = "" \/ c.PRIVATE_CHANNEL_ID = 0)

\* Config.validate (64-81): no required field is falsy.
validate(c) ==
    ~(c.BOT_TOKEN = "" \/ c.MONGODB_URL = "" \/ c.PRIVATE_CHANNEL_ID = 0
        \/ c.ADMIN_IDS = <<>>)

\* boot.pc: "import" (config.py not loaded yet), "crashed" (the import
\* raised), "ready" (start not called), the await start is suspended at,
\* "running", "returned".  application, session, polling: the messaging
\* application was built, start_session and start_polling were called.
NoBoot == [pc |-> "import", application |-> FALSE, session |-> FALSE,
           polling |-> FALSE, db |-> FALSE, running |-> FALSE,
           result |-> "none"]

\* start leaves by a return or by the handler of line 120; the finally
\* clause runs cleanup (132-150), which starts nothing.
StartReturn(b, res) ==
    /\ boot' = [b EXCEPT !.pc = "returned", !.running = FALSE, !.db = FALSE,
                          !.result = res]
    /\ config' = config

\* import config: config = Config() at line 91; int() of line 35 may raise.
LoadConfig ==
    /\ boot.pc = "import"
    /\ IF IsInt(getenv(env.os.PRIVATE_CHANNEL_ID, "0"))
       THEN /\ config' = Config(env.os)
            /\ boot' = [boot EXCEPT !.pc = "ready"]
       ELSE /\ config' = config
            /\ boot' = [boot EXCEPT !.pc = "crashed"]
    /\ UNCHANGED <<downloadVars, relayVars, limiterVars, probeVars, diskVars,
                 linkVars>>

\* start() up to the await of db.connect (main.py 76-80, 31-45).
Start ==
    /\ boot.pc = "ready"
    /\ UNCHANGED <<downloadVars, relayVars, limiterVars, probeVars, diskVars,
                 linkVars>>
    /\ IF ~validate(config)
       THEN StartReturn(boot, "false")
       ELSE \/ StartReturn(boot, "false")      \* create_directories raises
            \/ /\ boot' = [boot EXCEPT !.pc = "db"]
               /\ config' = config

\* db.connect is over; the application is built and start goes on to
\* start_session (main.py 45-87).
DbConnected ==
    /\ boot.pc = "db"
    /\ UNCHANGED <<downloadVars, relayVars, limiterVars, probeVars, diskVars,
                 linkVars>>
    /\ \/ StartReturn(boot, "false")           \* connect gives False or raises
       \/ StartReturn([boot EXCEPT !.db = TRUE], "false")   \* build() raises
       \/ StartReturn([boot EXCEPT !.db = TRUE, !.application = TRUE],
                      "false")                 \* FileManager, handlers raise
       \/ /\ boot' = [boot EXCEPT !.pc = "session", !.db = TRUE,
                                   !.application = TRUE, !.running = TRUE,
                                   !.session = TRUE]
          /\ config' = config

\* start_session, application.initialize and application.start are over,
\* one after the other; start_polling is called (main.py 87-99).
AppStarted ==
    /\ boot.pc = "session"
    /\ UNCHANGED <<downloadVars, relayVars, limiterVars, probeVars, diskVars,
                 linkVars>>
    /\ \/ StartReturn(boot, "false")           \* one of them raises
       \/ /\ boot' = [boot EXCEPT !.pc = "polling", !.polling = TRUE]
          /\ config' = config

\* start_polling is over: the loop of lines 105-106 runs until stop().
PollingStarted ==
    /\ boot.pc = "polling"
    /\ UNCHANGED <<downloadVars, relayVars, limiterVars, probeVars, diskVars,
                 linkVars>>
    /\ \/ StartReturn(boot, "false")
       \/ /\ boot' = [boot EXCEPT !.pc = "running"]
          /\ config' = config

\* stop() was called: the loop ends, the application is shut down (110-115)
\* or the shutdown raises.
Stopped ==
    /\ boot.pc = "running"
    /\ UNCHANGED <<downloadVars, relayVars, limiterVars, probeVars, diskVars,
                 linkVars>>
    /\ \E res \in {"true", "false"} : StartReturn(boot, res)

\* ------------------------------------ Utils.safe_delete_file (134-144)

Paths == {"a", "b"}

\* Faulty variant, to test the return value: return True is not under the if.
safe_delete_file_true(fs, path, raises) ==
    IF path \in fs /\ ~raises
    THEN [result |-> TRUE, files |-> fs \ {path}]
    ELSE [result |-> TRUE, files |-> fs]

\* safe_delete_file(path) with the files fs on disk; raises says that
\* os.remove raises (the exception is logged, line 143).
safe_delete_file(fs, path, raises) ==
    IF path \in fs
    THEN IF raises
         THEN [result |-> FALSE, files |-> fs]
         ELSE [result |-> TRUE, files |-> fs \ {path}]
    ELSE [result |-> FALSE, files |-> fs]

SafeDeleteFile ==
    /\ Len(dlog) < MaxOps
    /\ \E path \in Paths :
       \E raises \in (IF path \in files THEN BOOLEAN ELSE {FALSE}) :
          LET r == safe_delete_file(files, path, raises) IN
          /\ files' = r.files
          /\ dlog' = Append(dlog, [op |-> "delete", path |-> path,
                                   before |-> files, after |-> r.files,
                                   result |-> r.result, raises |-> raises])
    /\ UNCHANGED <<downloadVars, relayVars, limiterVars, probeVars, startVars,
                   linkVars>>

\* Some other code writes a file (a thumbnail, a download).
WriteFile ==
    /\ Len(dlog) < MaxOps
    /\ \E path \in Paths \ files :
          /\ files' = files \cup {path}
          /\ dlog' = Append(dlog, [op |-> "write", path |-> path,
                                   before |-> files,
                                   after |-> files \cup {path},
                                   result |-> TRUE, raises |-> FALSE])
    /\ UNCHANGED <<downloadVars, relayVars, limiterVars, probeVars, startVars,
                   linkVars>>

\* --------------------- generate_deeplink, parse_deeplink (utils.py 93-103)

\* A text is the sequence of its characters; the fixed parts of the link are
\* taken as one character each.
Texts(chars, n) == UNION {[1..k -> chars] : k \in 0..n}
Chars == {"v", "_", "A", "1", "x"}
CodeChars == {"A", "1"}          \* string.ascii_uppercase + string.digits
Codes == Texts(CodeChars, CodeLen) \ {<<>>}
Bots == {<<"b">>, <<"v", "_", "b">>}
Params == Texts(Chars, MaxParam)

None == [none |-> TRUE, text |-> <<>>]
Some(text) == [none |-> FALSE, text |-> text]
NoLink == [fn |-> "none", code |-> <<>>, url |-> <<>>, param |-> <<>>,
           result |-> None]

startswith(text, prefix) ==
    Len(text) >= Len(prefix) /\ SubSeq(text, 1, Len(prefix)) = prefix

\* generate_deeplink, line 96.
generate_deeplink(unique_code, bot_username) ==
    <<"https://t.me/">> \o bot_username \o <<"?start=">> \o <<"v", "_">>
        \o unique_code

\* The messaging platform hands the bot what follows "?start=" in the link,
\* as context.args[0] (user_panel.py 33-34).
StartParam(deeplink) ==
    LET i == CHOOSE j \in 1..Len(deeplink) : deeplink[j] = "?start="
    IN SubSeq(deeplink, i + 1, Len(deeplink))

\* Faulty variant, to test the prefix: startswith('v').
parse_deeplink_v(start_param) ==
    IF start_param # <<>> /\ startswith(start_param, <<"v">>)
    THEN Some(SubSeq(start_param, 3, Len(start_param)))
    ELSE None

\* parse_deeplink, lines 101-103.
parse_deeplink(start_param) ==
    IF start_param # <<>> /\ startswith(start_param, <<"v", "_">>)
    THEN Some(SubSeq(start_param, 3, Len(start_param)))
    ELSE None

\* A link made by generate_deeplink is opened: /start arrives with its
\* start parameter (user_panel.py 32-35).
OpenDeeplink ==
    /\ \E c \in Codes, b \in Bots :
          LET made == generate_deeplink(c, b) IN
          link' = [fn |-> "open", code |-> c, url |-> made,
                   param |-> StartParam(made),
                   result |-> parse_deeplink(StartParam(made))]
    /\ UNCHANGED <<downloadVars, relayVars, limiterVars, probeVars, startVars,
                   diskVars>>

\* /start arrives with any parameter.
ParseDeeplink ==
    /\ \E param \in Params :
          link' = [fn |-> "parse", code |-> <<>>, url |-> <<>>,
                   param |-> param, result |-> parse_deeplink(param)]
    /\ UNCHANGED <<downloadVars, relayVars, limiterVars, probeVars, startVars,
                   diskVars>>

\* ------------------------------------------- RateLimiter (utils.py 146-195)

Users == {1, 2}                  \* identities (user_id)
\* The window_seconds passed: a short window, and one longer than an hour.
Windows == {2, 2 * Hour}
\* Seconds between an is_allowed call and the one before it.
Jumps == {0, 1, 2, cleanup_interval + 1, Hour + 1, Day}

NoLret == [called |-> FALSE, user |-> 0, max |-> 0, window |-> 0,
           result |-> FALSE, now |-> 0, before |-> <<>>, swept |-> FALSE]

\* timedelta.seconds of a non-negative difference of d seconds.
Seconds(d) == d % Day

\* Faulty variant, to test the pruning: >= in place of >.
NewerOrEqual(list, start) == SelectSeq(list, LAMBDA ts : ts >= start)

\* The list comprehensions of lines 170 and 186-189: the timestamps newer
\* than start.
Newer(list, start) == SelectSeq(list, LAMBDA ts : ts > start)

\* Faulty variant, to test the limit: <= in place of <.
AdmitsOneMore(kept, max_requests) == Len(kept) <= max_requests

\* Lines 173-174: the request passes when fewer than max_requests remain.
Admits(kept, max_requests) == ~(Len(kept) >= max_requests)

\* Faulty variant, to test the sweep: the identities left with no timestamp
\* stay in the table.
_cleanup_keep_empty(req, t) ==
    [k \in DOMAIN req |-> Newer(req[k], t - Hour)]

\* _cleanup_old_requests (180-195) at time t: timestamps older than an hour
\* go, and so do the identities left with none.
_cleanup_old_requests(req, t) ==
    LET keep == {k \in DOMAIN req : Newer(req[k], t - Hour) # <<>>}
    IN [k \in keep |-> Newer(req[k], t - Hour)]

\* Faulty variant, to test the isolation of the identities: one list is kept
\* for everybody.
AllowedShared(L, u, t) ==
    LET sweep == Seconds(t - L.last_cleanup) > cleanup_interval
        req == IF sweep THEN _cleanup_old_requests(L.requests, t)
               ELSE L.requests
        mine == IF 1 \in DOMAIN req THEN req[1] ELSE <<>>
        kept == Newer(mine, t - env.lwindow)
        ok == Admits(kept, env.lmax)
        list == IF ok THEN Append(kept, t) ELSE kept
    IN [requests |-> [k \in DOMAIN req \cup {1, u} |->
                         IF k \in {1, u} THEN list ELSE req[k]],
        last_cleanup |-> IF sweep THEN t ELSE L.last_cleanup,
        result |-> ok, swept |-> sweep]

\* is_allowed(u, env.lmax, env.lwindow) at time t on a limiter whose fields
\* are L.requests and L.last_cleanup (154-178): the fields afterwards, the
\* value returned, and whether the sweep ran.
Allowed(L, u, t) ==
    LET sweep == Seconds(t - L.last_cleanup) > cleanup_interval
        req == IF sweep THEN _cleanup_old_requests(L.requests, t)
               ELSE L.requests
        mine == IF u \in DOMAIN req THEN req[u] ELSE <<>>
        kept == Newer(mine, t - env.lwindow)
        ok == Admits(kept, env.lmax)
        list == IF ok THEN Append(kept, t) ELSE kept
    IN [requests |-> [k \in DOMAIN req \cup {u} |->
                         IF k = u THEN list ELSE req[k]],
        last_cleanup |-> IF sweep THEN t ELSE L.last_cleanup,
        result |-> ok, swept |-> sweep]

\* A call of is_allowed(u, env.lmax, env.lwindow), d seconds after the call
\* before it.
is_allowed(u, d) ==
    LET t == now + d
        r == Allowed([requests |-> requests, last_cleanup |-> last_cleanup],
                     u, t)
    IN /\ calls < MaxCalls
       /\ calls' = calls + 1
       /\ now' = t
       /\ last_cleanup' = r.last_cleanup
       /\ requests' = r.requests
       /\ admitted' = IF r.result THEN [admitted EXCEPT ![u] = Append(@, t)]
                      ELSE admitted
       /\ lret' = [called |-> TRUE, user |-> u, max |-> env.lmax,
                   window |-> env.lwindow, result |-> r.result, now |-> t,
                   before |-> IF u \in DOMAIN requests THEN requests[u]
                              ELSE <<>>,
                   swept |-> r.swept]
       /\ UNCHANGED <<downloadVars, relayVars, helperVars>>

IsAllowed ==
    \E u \in env.users, d \in Jumps : is_allowed(u, d) /\ twin' = twin

\* Two limiters made together are called at the same times with the same
\* arguments, but that the second is spared some of the calls made for the
\* identity env.a.
NoTwin == [requests |-> [u \in {} |-> <<>>], last_cleanup |-> 0,
          called |-> FALSE, result |-> FALSE]
TwinJumps == {1, cleanup_interval + 1, Hour - 1}

TwinCall ==
    \E u \in env.users, d \in TwinJumps, both \in BOOLEAN :
        /\ u # env.a => both
        /\ is_allowed(u, d)
        /\ twin' =
             IF both
             THEN LET r == Allowed(twin, u, now + d)
                  IN [requests |-> r.requests,
                      last_cleanup |-> r.last_cleanup,
                      called |-> TRUE, result |-> r.result]
             ELSE [twin EXCEPT !.called = FALSE]


\* ------------------------------------------------------- specifications

InitState(e) ==
    /\ pc = [t \in Tasks |-> "idle"]
    /\ url = [t \in Tasks |-> NoUrl]
    /\ did = [t \in Tasks |-> 0]
    /\ attempt = [t \in Tasks |-> 0]
    /\ gets = [t \in Tasks |-> 0]
    /\ fails = [t \in Tasks |-> 0]
    /\ declared = [t \in Tasks |-> 0]
    /\ written = [t \in Tasks |-> 0]
    /\ onDisk = [t \in Tasks |-> FALSE]
    /\ slept = [t \in Tasks |-> <<>>]
    /\ elapsed = [t \in Tasks |-> 0]
    /\ waited = [t \in Tasks |-> 0]
    /\ sem = SemaphoreSlots
    /\ semq = <<>>
    /\ lock = 0
    /\ lockq = <<>>
    /\ active = [i \in Ids |-> Absent]
    /\ info = 0
    /\ orphans = 0
    /\ events = 0
    /\ env = e
    /\ ret = NoRet
    /\ prev = NoPrev
    /\ cret = NoCret
    /\ upc = "idle"
    /\ ufile = NoFile
    /\ uattempt = 0
    /\ thumbnail_path = "none"
    /\ thumb_file = FALSE
    /\ methods = <<>>
    /\ gen = NoGen
    /\ tries = <<>>
    /\ uret = NoUret
    /\ now = 0
    /\ requests = [u \in {} |-> <<>>]
    /\ last_cleanup = 0
    /\ admitted = [u \in Users |-> <<>>]
    /\ calls = 0
    /\ lret = NoLret
    /\ twin = NoTwin
    /\ probe = NoProbe
    /\ config = NoConfig
    /\ boot = NoBoot
    /\ files = {}
    /\ dlog = <<>>
    /\ link = NoLink

\* One download_video call at a time, get_video_info calls beside it, and an
\* environment that may fail every attempt of the call.
Init ==
    InitState([quota |-> max_retries + MaxEvents, live |-> {1},
               bodymax |-> MaxBody, threadmax |-> MaxThreads, urls |-> Urls,
               cbraise |-> TRUE, observe |-> TRUE, timed |-> FALSE,
               infos |-> Infos])

Next ==
    \/ \E t \in Tasks :
          \/ Call(t)
          \/ YtDone(t)
          \/ YtTimeout(t)
          \/ DirectResponse(t)
          \/ DirectSleep(t)
          \/ DirectChunk(t)
    \/ OrphanDone
    \/ InfoCall
    \/ InfoDone
    \/ InfoTimeout

Spec == Init /\ [][Next]_vars

\* Two callers at a time, whose random ids may coincide; servers answer with
\* an empty body; any step may meet a fault.
InitPair ==
    InitState([quota |-> 1 + MaxEvents, live |-> {1, 2}, bodymax |-> 0,
               threadmax |-> 0,
               urls |-> {YoutubeUrl, DirectUrl, BadUrl, OddUrl},
               cbraise |-> TRUE, observe |-> FALSE, timed |-> FALSE,
               infos |-> {NoInfo, SmallInfo, BigInfo}])

NextPair ==
    \E t \in Tasks :
        \/ Call(t)
        \/ LockAdmit(t)
        \/ YtDone(t)
        \/ DirectResponse(t)
        \/ DirectSleep(t)
        \/ DirectChunk(t)

SpecPair == InitPair /\ [][NextPair]_vars

\* Three callers, as many as there are slots, with URLs of the two
\* strategies; one step of a behaviour may meet a fault.
InitMix ==
    InitState([quota |-> 1, live |-> {1, 2, 3}, bodymax |-> 0,
               threadmax |-> 0, urls |-> {YoutubeUrl, DirectUrl},
               cbraise |-> FALSE, observe |-> FALSE, timed |-> FALSE,
               infos |-> {NoInfo, SmallInfo}])

SpecMix == InitMix /\ [][NextPair]_vars

\* More callers than slots: every coroutine calls download_video again and
\* again; servers answer with an empty body, the extractor meets no timeout,
\* and one step of a behaviour may meet a fault.
InitConc ==
    InitState([quota |-> 1, live |-> Tasks, bodymax |-> 0,
               threadmax |-> 0, urls |-> {YoutubeUrl, DirectUrl, BadUrl},
               cbraise |-> TRUE, observe |-> FALSE, timed |-> FALSE,
               infos |-> {NoInfo, SmallInfo, BigInfo}])

NextConc ==
    \E t \in Tasks :
        \/ Call(t)
        \/ Admit(t)
        \/ LockAdmit(t)
        \/ YtDone(t)
        \/ DirectResponse(t)
        \/ DirectSleep(t)
        \/ DirectChunk(t)

SpecConc == InitConc /\ [][NextConc]_vars

\* More callers than slots and nothing fails: servers answer 200, callbacks
\* return, ids are distinct.
InitCalm ==
    InitState([quota |-> 0, live |-> Tasks, bodymax |-> 0, threadmax |-> 0,
               urls |-> {YoutubeUrl, DirectUrl, BadUrl}, cbraise |-> FALSE,
               observe |-> FALSE, timed |-> FALSE,
               infos |-> {NoInfo, SmallInfo, BigInfo}])

\* The steps of coroutine t after its call.
Progress(t) ==
    \/ Admit(t)
    \/ LockAdmit(t)
    \/ YtDone(t)
    \/ DirectResponse(t)
    \/ DirectChunk(t)

NextCalm == \E t \in Tasks : Call(t) \/ Progress(t)

SpecCalm == InitCalm /\ [][NextCalm]_vars

\* The event loop runs every coroutine that is ready, the network answers and
\* the executor thread ends: no step of a call is put off forever.
FairCalm == SpecCalm /\ \A t \in Tasks : WF_vars(Progress(t))

\* The same callers and the same fairness, with the two kinds of URL and an
\* extractor that finds the video or finds nothing.
InitGate ==
    InitState([quota |-> 0, live |-> Tasks, bodymax |-> 0, threadmax |-> 0,
               urls |-> {YoutubeUrl, DirectUrl}, cbraise |-> FALSE,
               observe |-> FALSE, timed |-> FALSE,
               infos |-> {NoInfo, SmallInfo}])

SpecGate == InitGate /\ [][NextCalm]_vars

FairGate == SpecGate /\ \A t \in Tasks : WF_vars(Progress(t))

\* Two callers of the extractor strategy under the clock: the extractor may
\* outlast DOWNLOAD_TIMEOUT, and random ids may coincide.
InitTimed ==
    InitState([quota |-> 1 + MaxEvents, live |-> {1, 2}, bodymax |-> 0,
               threadmax |-> 1 + MaxThreads, urls |-> {YoutubeUrl, OtherUrl},
               cbraise |-> FALSE, observe |-> FALSE, timed |-> TRUE,
               infos |-> {NoInfo, SmallInfo, BigInfo}])

NextTimed ==
    \/ \E t \in Tasks :
          \/ Call(t)
          \/ LockAdmit(t)
          \/ YtDone(t)
          \/ YtTimeout(t)
    \/ OrphanDone
    \/ Tick

SpecTimed == InitTimed /\ [][NextTimed]_vars

\* Two callers whose jobs may be cancelled at any moment; one step of a
\* behaviour may meet a fault.
InitCancel ==
    InitState([quota |-> 1, live |-> {1, 2}, bodymax |-> 1, threadmax |-> 0,
               urls |-> {YoutubeUrl, DirectUrl, EmbeddedUrl},
               cbraise |-> FALSE,
               observe |-> FALSE, timed |-> FALSE,
               infos |-> {NoInfo, SmallInfo, BigInfo}])

NextCancel ==
    \/ \E t \in Tasks :
          \/ Call(t)
          \/ LockAdmit(t)
          \/ YtDone(t)
          \/ DirectResponse(t)
          \/ DirectSleep(t)
          \/ DirectChunk(t)
    \/ CancelDownload

SpecCancel == InitCancel /\ [][NextCancel]_vars

\* Relays of files to the archive channel, one after the other.
InitUpload ==
    InitState([quota |-> 0, live |-> {}, bodymax |-> 0, threadmax |-> 0,
               urls |-> {}, cbraise |-> FALSE, observe |-> FALSE,
               timed |-> FALSE])

NextUpload ==
    \/ UploadCall
    \/ ThumbFfmpeg
    \/ ThumbOpencv
    \/ SendDone
    \/ UploadSleepDone

SpecUpload == InitUpload /\ [][NextUpload]_vars

\* is_allowed called again and again with one max_requests and one
\* window_seconds.
InitLimiter ==
    \E w \in Windows, m \in 1..MaxRequests :
        InitState([quota |-> 0, live |-> {}, bodymax |-> 0, threadmax |-> 0,
                   urls |-> {}, cbraise |-> FALSE, observe |-> FALSE,
                   timed |-> FALSE, users |-> Users, lwindow |-> w,
                   lmax |-> m])

NextLimiter == IsAllowed

SpecLimiter == InitLimiter /\ [][NextLimiter]_vars

\* Two limiters side by side, under windows of at most an hour.
InitTwin ==
    \E w \in {2, Hour}, m \in 1..MaxRequests, a \in Users :
        InitState([quota |-> 0, live |-> {}, bodymax |-> 0, threadmax |-> 0,
                   urls |-> {}, cbraise |-> FALSE, observe |-> FALSE,
                   timed |-> FALSE, users |-> Users, lwindow |-> w,
                   lmax |-> m, a |-> a])

NextTwin == TwinCall

SpecTwin == InitTwin /\ [][NextTwin]_vars

\* Durations and dimensions asked of files of every kind.
InitProbe ==
    InitState([quota |-> 0, live |-> {}, bodymax |-> 0, threadmax |-> 0,
               urls |-> {}, cbraise |-> FALSE, observe |-> FALSE,
               timed |-> FALSE])

NextProbe ==
    \/ GetVideoDuration
    \/ GetVideoDimensions

SpecProbe == InitProbe /\ [][NextProbe]_vars

\* The process is started once, in every environment.
InitStart ==
    \E os \in OsEnvs :
        InitState([quota |-> 0, live |-> {}, bodymax |-> 0, threadmax |-> 0,
                   urls |-> {}, cbraise |-> FALSE, observe |-> FALSE,
                   timed |-> FALSE, os |-> os])

NextStart ==
    \/ LoadConfig
    \/ Start
    \/ DbConnected
    \/ AppStarted
    \/ PollingStarted
    \/ Stopped

SpecStart == InitStart /\ [][NextStart]_vars

\* Files written and deleted, in any order.
InitDisk ==
    InitState([quota |-> 0, live |-> {}, bodymax |-> 0, threadmax |-> 0,
               urls |-> {}, cbraise |-> FALSE, observe |-> FALSE,
               timed |-> FALSE])

NextDisk ==
    \/ SafeDeleteFile
    \/ WriteFile

SpecDisk == InitDisk /\ [][NextDisk]_vars

\* /start commands with and without a deep link.
InitLink ==
    InitState([quota |-> 0, live |-> {}, bodymax |-> 0, threadmax |-> 0,
               urls |-> {}, cbraise |-> FALSE, observe |-> FALSE,
               timed |-> FALSE])

NextLink ==
    \/ OpenDeeplink
    \/ ParseDeeplink

SpecLink == InitLink /\ [][NextLink]_vars

\* ------------------------------------------------------------ properties

\* Coroutines between the acquisition and the release of download_semaphore.
Holders ==
    {t \in Tasks : pc[t] \in {"wait_lock", "y_run", "d_get", "d_sleep", "d_body"}}

\* Keys of active_downloads.
Entries == {i \in Ids : active[i] # Absent}

\* Coroutine t is inside the strategy chosen for its URL.
InStrategy(t) == pc[t] \in {"wait_lock", "y_run", "d_get"}

\* C1 (SpecConc): in every reachable state at most 3 download_video calls are
\* between acquiring and releasing the admission semaphore, and
\* active_downloads holds at most 3 entries.
C1_AtMostThree ==
    /\ Cardinality(Holders) <= 3
    /\ Cardinality(Entries) <= 3

\* The bound is met: three calls hold the slots, three records are in the
\* table and a fourth call waits.
C1_Witness ==
    /\ Cardinality(Holders) = 3
    /\ Cardinality(Entries) = 3
    /\ Len(semq) = 1

\* C2 (FairCalm): a call with a valid URL issued while 3 retrievals hold the
\* slots does not return, it waits; a waiting call leaves the queue only by
\* entering its strategy; and, every admitted retrieval finishing in the end,
\* each waiting call is eventually admitted and runs its strategy.
C2_BlockedThenAdmitted ==
    /\ [][\A t \in Tasks :
            /\ (Cardinality(Holders) = 3 /\ pc[t] = "idle"
                    /\ (pc'[t] # "idle" \/ (ret'.task = t /\ ret'.url.v = "true")))
                => pc'[t] = "wait_sem"
            /\ pc[t] = "wait_sem" => (pc'[t] = "wait_sem" \/ InStrategy(t)')]_vars
    /\ \A t \in Tasks : (pc[t] = "wait_sem") ~> InStrategy(t)

\* A call waits while three retrievals hold the slots.
C2_Witness ==
    /\ Cardinality(Holders) = 3
    /\ \E t \in Tasks : pc[t] = "wait_sem" /\ url[t].v = "true"

\* C3 (SpecPair): when an admitted download_video call returns, whatever its
\* outcome, its job record is absent from active_downloads; and the table is
\* empty whenever no download_video call is in progress.
C3_RecordRemoved ==
    /\ ret.id # 0 => active[ret.id] = Absent
    /\ (\A t \in Tasks : pc[t] = "idle") => Entries = {}

\* A call ends by the exception path (its progress callback raised inside the
\* try block) while another call still has its record in the table.
C3_Witness ==
    /\ ret.id # 0
    /\ ret.cause = "Callback"
    /\ ret.strategy = "none"
    /\ Entries # {}

\* C4 (SpecPair): download_video never propagates an exception to its
\* caller: every return gives null or a file path.
C4_NeverPropagates == ret.task # 0 => ret.result \in {Null, File}

\* C5 (SpecPair): a call whose URL fails validation returns null and changes
\* nothing: no session.get, no extractor, no semaphore slot, no job record;
\* no call in flight ever carries such a URL.
C5_InvalidUrlRejected ==
    /\ [](\A t \in Tasks : pc[t] # "idle" => url[t].v = "true")
    /\ [][(ret'.task # 0 /\ ret'.url.v # "true")
            => /\ ret'.result = Null
               /\ ret'.gets = 0
               /\ UNCHANGED <<taskVars, clockVars, gateVars, active, extVars, events>>]_vars

\* A call with an invalid URL has just returned while another call holds a
\* slot and a record.
C5_Witness ==
    /\ ret.task # 0
    /\ ret.url.v # "true"
    /\ Holders # {}
    /\ Entries # {}

\* Extractor invocations executing: inside download_video, inside
\* get_video_info, and those abandoned by a timeout.
Extractors == Cardinality({t \in Tasks : pc[t] = "y_run"}) + info + orphans

\* C6 (Spec): at every instant at most one yt-dlp invocation is executing
\* process-wide, over download_video and get_video_info calls, timeouts
\* included.
C6_OneExtractor == Extractors <= 1

C8_ThreeAttempts ==
    /\ \A t \in Tasks : gets[t] <= 3
    /\ ret.gets <= 3
    /\ (ret.strategy = "direct" /\ ret.gets > 0 /\ ret.fails = ret.gets
            /\ ret.cause # "Callback")
        => (ret.gets = 3 /\ ret.result = Null)

\* Three attempts, three transient errors, then the return.
C8_Witness ==
    /\ ret.strategy = "direct"
    /\ ret.gets = 3
    /\ ret.fails = 3
    /\ ret.result = Null

\* C9 (Spec): when a response of the direct strategy declares a
\* content-length over the maximum, nothing of it is written, the retrieval
\* returns failure, and the call goes no further: no call in flight carries
\* such a response.
C9_DeclaredOversize ==
    /\ \A t \in Tasks : declared[t] <= MaxFileSize
    /\ (ret.strategy = "direct" /\ ret.declared > MaxFileSize)
        => (ret.written = 0 /\ ret.result = Null)

\* An oversize response met on the first attempt, with attempts left.
C9_Witness ==
    /\ ret.strategy = "direct"
    /\ ret.declared > MaxFileSize
    /\ ret.gets = 1

\* C10 (Spec): a direct retrieval that has streamed more than the maximum
\* does not return the file.
C10_MeasuredOversize ==
    (ret.strategy = "direct" /\ ret.written > MaxFileSize) => ret.result # File

\* C11 (Spec): when a direct retrieval ends on a declared content-length over
\* the maximum, no file created by that call, in this attempt or an earlier
\* one, is left in the destination directory.
C11_NoFileAfterOversize ==
    (ret.strategy = "direct" /\ ret.declared > MaxFileSize) => ~ret.file

\* C12 (SpecTimed), as the code has it: the timeout bounds the wait for the
\* offloaded work only, counted from the moment the call holds the gate:
\* wait_for never waits longer than DOWNLOAD_TIMEOUT, and a call that ends on
\* the timeout has waited that long, gives its caller no file, and leaves the
\* extractor gate free and its slot released.
C12_TimeoutReleases ==
    /\ \A t \in Tasks : waited[t] <= DownloadTimeout
    /\ ret.cause = "Timeout"
        => /\ ret.result # File
           /\ ret.waited = DownloadTimeout
           /\ lock = 0
           /\ sem >= 1
           /\ pc[ret.task] = "idle"

\* C12 (SpecTimed), as claimed: the timeout fails the retrieval and releases
\* gate and slot, and every retrieval of the extractor strategy is over within
\* DOWNLOAD_TIMEOUT of its call.
C12_WithinTimeout ==
    /\ C12_TimeoutReleases
    /\ \A t \in Tasks :
          (pc[t] # "idle" /\ Strategy(url[t]) = "ytdlp")
              => elapsed[t] <= DownloadTimeout

\* A call ends on the timeout while the other call waits for the gate.
C12_Witness ==
    /\ ret.cause = "Timeout"
    /\ \E t \in Tasks : pc[t] = "wait_lock" /\ elapsed[t] = DownloadTimeout

\* C13 (Spec): the direct strategy is chosen exactly when the URL matches no
\* platform domain and its path ends with a video extension; every other URL
\* goes to the extractor strategy.
C13_StrategyChoice ==
    ret.strategy # "none"
        => (ret.strategy = "direct" <=> (~ret.url.yt /\ ret.url.suffix))

\* C14 (SpecUpload): upload_to_telegram called on a file that is missing,
\* empty or over the maximum returns null with no send attempt and no
\* thumbnail method run; no call in flight ever carries such a file.
C14_RejectedBeforeWork ==
    /\ upc # "idle"
        => (ufile.exists /\ ufile.size # 0 /\ ufile.size <= MAX_FILE_SIZE)
    /\ (uret.called /\ (~uret.file.exists \/ uret.file.size = 0
                            \/ uret.file.size > MAX_FILE_SIZE))
        => (uret.result = Null /\ uret.tries = <<>> /\ uret.methods = <<>>)

\* A video file over the maximum has just been refused.
C14_Witness ==
    /\ uret.called
    /\ uret.file.exists
    /\ uret.file.video
    /\ uret.file.size > MAX_FILE_SIZE

\* C15 (SpecUpload): when upload_to_telegram returns, no thumbnail file made
\* during the call is left in the temp directory.
C15_NoThumbnailLeft == uret.called => ~uret.thumb_file

\* C16 (SpecUpload): a relay makes at most 3 send attempts, and a send attempt
\* is followed by another only when it ended in a transient network/timeout
\* error.
C16_RetryOnlyTransient ==
    LET Policy(tr) ==
            /\ Len(tr) <= 3
            /\ \A i \in 1..Len(tr) : i < Len(tr) => tr[i].outcome = "transient"
    IN Policy(tries) /\ Policy(uret.tries)

\* Three send attempts, each ended by a transient error.
C16_Witness ==
    /\ uret.called
    /\ Len(uret.tries) = 3
    /\ \A i \in 1..3 : uret.tries[i].outcome = "transient"

\* C17 (SpecUpload): upload_to_telegram never raises; it returns the message
\* identifier iff some send attempt succeeded, and null otherwise.
C17_IdIffSent ==
    uret.called
        => /\ uret.result \in {"id", Null}
           /\ uret.result = "id"
                <=> \E i \in 1..Len(uret.tries) : uret.tries[i].outcome = "ok"

\* Both thumbnail methods failed, two sends failed, the third went through.
C17_Witness ==
    /\ uret.called
    /\ uret.result = "id"
    /\ Len(uret.tries) = 3
    /\ uret.methods = <<"ffmpeg", "opencv">>
    /\ ~uret.tries[3].attached

\* C18 (SpecUpload): every send attempt of a relay uses the document
\* transport when the file is larger than 50MB and the video transport, with
\* duration, width and height, when it is a video file of at most 50MB; all
\* attempts of one relay use the same transport.
C18_TransportBySize ==
    LET Chosen(f, tr) ==
            \A i \in 1..Len(tr) :
                /\ f.size > VideoLimit => tr[i].transport = "document"
                /\ (f.video /\ f.size <= VideoLimit)
                    => (tr[i].transport = "video" /\ tr[i].meta)
                /\ tr[i].transport = tr[1].transport
    IN Chosen(ufile, tries) /\ Chosen(uret.file, uret.tries)

\* A video file of exactly 50MB, sent three times.
C18_Witness ==
    /\ uret.called
    /\ uret.file.video
    /\ uret.file.size = VideoLimit
    /\ Len(uret.tries) = 3

\* C19 (SpecLimiter): after is_allowed no timestamp of the identity that is
\* not newer than now minus the window remains; the call returns true iff
\* fewer than max timestamps remained; it appends now when it returns true
\* and records nothing when it returns false.  For a window of at most an
\* hour the timestamps that remain are exactly those of the list before the
\* call that are newer than now minus the window.
C19_PruneThenAdmit ==
    lret.called =>
        LET post == requests[lret.user]
            rest == IF lret.result THEN SubSeq(post, 1, Len(post) - 1)
                    ELSE post
            start == lret.now - lret.window
        IN /\ \A i \in 1..Len(post) : post[i] > start
           /\ lret.result <=> Len(rest) < lret.max
           /\ lret.result => (post # <<>> /\ post[Len(post)] = lret.now)
           /\ \A i \in 1..Len(rest) :
                 \E j \in 1..Len(lret.before) : rest[i] = lret.before[j]
           /\ lret.window <= Hour
                => rest = SelectSeq(lret.before, LAMBDA ts : ts > start)

\* A call is denied: the list is full and stays as it was.
C19_Witness ==
    /\ lret.called
    /\ ~lret.result
    /\ lret.max = 2
    /\ requests[lret.user] = lret.before

\* Calls admitted in the half-open interval of env.lwindow seconds that
\* begins at time t.
AdmittedFrom(u, t) ==
    {j \in 1..Len(admitted[u]) :
        admitted[u][j] >= t /\ admitted[u][j] < t + env.lwindow}

\* C20 (SpecLimiter), as claimed: for one identity, max and window, no
\* interval of window seconds [t, t + window) holds more than max admitted
\* calls, and a call is denied only while max admitted calls are newer than
\* now minus the window.
C20_AtMostMaxPerWindow ==
    \A u \in Users :
        /\ \A i \in 1..Len(admitted[u]) :
              Cardinality(AdmittedFrom(u, admitted[u][i])) <= env.lmax
        /\ (lret.called /\ lret.user = u /\ ~lret.result)
              => Cardinality(AdmittedFrom(u, now - env.lwindow + 1)) >= env.lmax

\* C20 (SpecLimiter), as the code has it: the same, for a window of at most
\* one hour.
C20_WithinAnHour == env.lwindow <= Hour => C20_AtMostMaxPerWindow

\* With max 2 and a short window: two calls admitted, one denied, and a call
\* admitted again once the window has passed.
C20_Witness ==
    /\ env.lwindow <= Hour
    /\ env.lmax = 2
    /\ lret.called /\ lret.result
    /\ Len(admitted[lret.user]) = 3
    /\ calls = 4
    /\ Len(requests[lret.user]) = 1

\* C21 (SpecCancel): cancel_download(id) returns true and sets the status of
\* the job to 'cancelled' iff id is a key of active_downloads, and otherwise
\* returns false and leaves the table as it is; the call changes nothing
\* else: no coroutine moves, no slot and no gate is released; a cancelled
\* job runs on and its call returns what its strategy gave; a slot is free
\* only when its call has left.
C21_CancelAdvisory ==
    /\ [][cret'.called =>
            /\ cret'.result <=> active[cret'.id] # Absent
            /\ active' = IF cret'.result
                          THEN [active EXCEPT ![cret'.id] = "cancelled"]
                          ELSE active
            /\ UNCHANGED <<taskVars, clockVars, gateVars, extVars, events>>
            /\ ret' = NoRet]_vars
    /\ [](ret.status = "cancelled" => ret.result = ret.sres)
    /\ [](sem + Cardinality(Holders) = SemaphoreSlots)

\* A job cancelled while in flight has streamed its body and returned the
\* file.
C21_Witness ==
    /\ ret.status = "cancelled"
    /\ ret.strategy = "direct"
    /\ ret.written = 1
    /\ ret.result = File

\* C22 (SpecUpload): generate_thumbnail runs the OpenCV method iff the ffmpeg
\* method failed (tool missing, another exception, the 30 s timeout, a
\* non-zero exit code or no output file) and never when it succeeded; it
\* returns None iff both methods failed, the path otherwise, and never
\* raises.
C22_FallbackIffFailed ==
    LET Failed(r) == r.how # "exit" \/ r.returncode # 0 \/ ~r.output
        Fallback(g) ==
            g.called =>
                /\ g.result = "pending" => Failed(g.ffmpeg)
                /\ g.result # "pending" =>
                    /\ g.opencv # "none" <=> Failed(g.ffmpeg)
                    /\ g.result \in {"none", "path"}
                    /\ g.result = "none"
                        <=> (Failed(g.ffmpeg) /\ g.opencv # "frame")
    IN /\ Fallback(gen)
       /\ Fallback(uret.gen)
       /\ upc = "opencv" <=> (gen.called /\ gen.result = "pending")

\* ffmpeg exited with code 0 and wrote no file; OpenCV made the thumbnail.
C22_Witness ==
    /\ uret.gen.called
    /\ uret.gen.ffmpeg.how = "exit"
    /\ uret.gen.ffmpeg.returncode = 0
    /\ uret.gen.opencv = "frame"
    /\ uret.gen.result = "path"

\* C23 (SpecProbe): get_video_duration and get_video_dimensions never raise;
\* when ffprobe fails (it raises, exits with a non-zero code or prints no
\* number) and OpenCV fails (it raises, does not open the file or reports no
\* positive fps) the duration is 0; when OpenCV raises or does not open the
\* file the dimensions are (0, 0); and get_video_duration runs the OpenCV
\* method only when ffprobe gave no positive duration.
C23_BestEffort ==
    LET r == probe.ffprobe
        c == probe.opencv
        ProbeFailed ==
            r.how # "exit" \/ r.returncode # 0 \/ ~r.stdout.number
        CaptureFailed == c.how # "open" \/ ~(c.fps > 0)
        Seconds2 == IF ProbeFailed THEN 0 ELSE r.stdout.halves
    IN /\ ~probe.raised
       /\ probe.fn = "duration" =>
            /\ (ProbeFailed /\ CaptureFailed) => probe.duration = 0
            /\ c # NoCapture => ~(Seconds2 >= 2)
            /\ c = NoCapture => probe.duration * 2 <= Seconds2
       /\ probe.fn = "dimensions" =>
            (probe.size.how # "open"
                => (probe.width = 0 /\ probe.height = 0))

\* ffprobe printed less than a second; OpenCV was asked and gave a duration.
C23_Witness ==
    /\ probe.fn = "duration"
    /\ probe.ffprobe.returncode = 0
    /\ probe.ffprobe.stdout.halves = 1
    /\ probe.opencv.how = "open"
    /\ probe.duration = MaxDuration

\* C24 (SpecStart): when the bot credential, the archive channel id or the
\* admin list is absent from the environment (not set, or set to nothing),
\* the process does not start: the import of config.py raises, or
\* MovieUploaderBot.start returns failure; the messaging application is
\* never created, the download session never started, polling never
\* started.
C24_MissingConfigFatal ==
    LET os == env.os
        Missing(var) == ~var.set \/ var.value = ""
        NoAdmins ==
            ~os.ADMIN_IDS.set \/ os.ADMIN_IDS.value = <<"">>
    IN (Missing(os.BOT_TOKEN) \/ Missing(os.PRIVATE_CHANNEL_ID) \/ NoAdmins)
        => /\ ~boot.application
           /\ ~boot.session
           /\ ~boot.polling
           /\ boot.pc \in {"import", "crashed", "ready", "returned"}
           /\ boot.pc = "returned" => boot.result = "false"

\* Everything is given but the admin list, and start has returned.
C24_Witness ==
    /\ env.os.BOT_TOKEN = Set("token")
    /\ env.os.PRIVATE_CHANNEL_ID = Set("-1001")
    /\ ~env.os.ADMIN_IDS.set
    /\ boot.pc = "returned"

C26_RoundTrip ==
    /\ link.fn = "open" => link.result = Some(link.code)
    /\ (link.fn = "parse"
            /\ (link.param = <<>> \/ Len(link.param) < 2
                    \/ link.param[1] # "v" \/ link.param[2] # "_"))
        => link.result = None

\* A link of a bot whose name begins with v_ has been opened.
C26_Witness ==
    /\ link.fn = "open"
    /\ link.url[2] = "v"
    /\ Len(link.code) = CodeLen
    /\ ~link.result.none

\* C27 (SpecUpload): within one relay the thumbnail file is deleted only
\* after the last send attempt, never between two send attempts: a
\* thumbnail attached to the first send attempt is there for every later
\* one, and it is on disk whenever a send is in flight or a retry is
\* waited for.
C27_DeletedAfterLastSend ==
    LET Kept(tr) == \A i \in 1..Len(tr) : tr[1].attached => tr[i].attached
    IN /\ Kept(tries)
       /\ Kept(uret.tries)
       /\ (upc \in {"send", "sleep"} /\ tries[1].attached) => thumb_file

\* C28 (Spec): between consecutive attempts of a direct retrieval the wait
\* is linear in the attempt index: the sleep before retry k (k = 1, 2) is
\* retry_delay times k.
C28_LinearBackoff ==
    LET Linear(sl) == \A k \in 1..Len(sl) : sl[k] = retry_delay * k
    IN /\ \A t \in Tasks : Linear(slept[t])
       /\ Linear(ret.slept)

\* C29 (SpecUpload): in upload_to_telegram the wait after failed attempt n
\* (n = 1, 2) caused by a transient error is retry_delay times n, 2 s then
\* 4 s; no wait follows the third failed attempt, nor an attempt that ended
\* otherwise.
C29_UploadBackoff ==
    LET Waits(tr) ==
            \A n \in 1..Len(tr) :
                /\ n \in {1, 2} /\ tr[n].outcome = "transient"
                    => /\ tr[n].slept = upload_retry_delay * n
                       /\ tr[n].slept = 2 * n
                /\ (n = 3 \/ tr[n].outcome # "transient") => tr[n].slept = 0
    IN Waits(tries) /\ Waits(uret.tries)

\* Three attempts ended by transient errors: 2 s, 4 s, and no third wait.
C29_Witness ==
    /\ uret.called
    /\ Len(uret.tries) = 3
    /\ uret.tries[1].slept = 2
    /\ uret.tries[2].slept = 4
    /\ uret.tries[3].outcome = "transient"
    /\ uret.tries[3].slept = 0

\* C30 (Spec): in the extractor strategy, when the size the extractor
\* reports (filesize, or filesize_approx when no filesize is given) is
\* greater than the maximum, the retrieval returns failure and ydl.download
\* is never called.
C30_RejectedUpfront ==
    LET inf == ret.info
        reported == IF inf.filesize \notin {NoneSize, 0} THEN inf.filesize
                    ELSE inf.filesize_approx
    IN (ret.strategy = "ytdlp" /\ inf.given /\ reported > MaxFileSize)
        => /\ ret.result = Null
           /\ ret.sres = Null
           /\ ret.downloads = 0

\* No filesize is given and filesize_approx is over the maximum.
C30_Witness ==
    /\ ret.strategy = "ytdlp"
    /\ ret.info.given
    /\ ret.info.filesize = NoneSize
    /\ ret.info.filesize_approx > MaxFileSize
    /\ ret.cause = "Oversize"


\* Coroutine t runs a call that download_video hands to _download_direct.
DirectCall(t) ==
    /\ pc[t] # "idle"
    /\ ~_is_youtube_url(url[t])
    /\ _is_direct_video_url(url[t])

\* C31 (SpecMix): a direct-stream retrieval never acquires or waits on
\* yt_dlp_lock, and no step of it touches the gate or its queue; whoever
\* holds the gate, a direct-stream retrieval holding a slot has its next step
\* ready (the response, the end of the sleep, the next chunk) and can end.
C31_DirectIgnoresGate ==
    /\ [](\A t \in Tasks : DirectCall(t) =>
            /\ pc[t] \in {"wait_sem", "d_get", "d_sleep", "d_body"}
            /\ lock # t
            /\ \A k \in 1..Len(lockq) : lockq[k] # t
            /\ pc[t] = "d_get" => ENABLED DirectResponse(t)
            /\ pc[t] = "d_sleep" => ENABLED DirectSleep(t)
            /\ pc[t] = "d_body" => ENABLED DirectChunk(t))
    /\ [][\A t \in Tasks :
            (DirectCall(t) /\ pc[t] # "wait_sem" /\ pc'[t] # pc[t])
                => UNCHANGED <<lock, lockq>>]_vars

\* A direct-stream retrieval returns its file while an extractor invocation
\* holds the gate and another extractor call waits for it.
C31_Witness ==
    /\ ret.strategy = "direct"
    /\ ret.result = File
    /\ lock # 0
    /\ pc[lock] = "y_run"
    /\ lockq # <<>>

\* The list a limiter that never sweeps holds for identity u at a call made
\* at time t: the timestamps of the calls it admitted for u that are newer
\* than the window (its results being those of this behaviour so far).
Unswept(u, t) == Newer(admitted[u], t - env.lwindow)

\* C32 (SpecTwin): the sweep of a call made at time t leaves no identity
\* whose timestamps are all older than one hour and no timestamp older than
\* one hour, in what it returns and in the table after the call; and for a
\* window of at most one hour every is_allowed call, sweeps or no sweeps
\* before it, gives the result of a limiter that never sweeps.
C32_SweepHarmless ==
    /\ [][lret'.swept =>
            LET swept == _cleanup_old_requests(requests, now') IN
            /\ DOMAIN swept \subseteq DOMAIN requests
            /\ \A k \in DOMAIN requests :
                  k \in DOMAIN swept
                    <=> \E i \in 1..Len(requests[k]) :
                            requests[k][i] > now' - Hour
            /\ \A k \in DOMAIN swept :
                  swept[k] = SelectSeq(requests[k],
                                       LAMBDA ts : ts > now' - Hour)
            /\ \A k \in DOMAIN requests' :
                  /\ requests'[k] # <<>>
                  /\ \A i \in 1..Len(requests'[k]) :
                        requests'[k][i] > now' - Hour
            /\ last_cleanup' = now']_vars
    /\ [][(calls' # calls /\ env.lwindow <= Hour) =>
            (lret'.result
                <=> Len(Unswept(lret'.user, now')) < env.lmax)]_vars

\* Under a short window a sweep drops an identity that had been admitted, and
\* trims nothing of the caller's that the window would have kept.
C32_Witness ==
    /\ lret.called /\ lret.swept
    /\ env.lwindow <= Hour
    /\ calls >= 3
    /\ \E k \in Users :
          k # lret.user /\ admitted[k] # <<>> /\ k \notin DOMAIN requests

\* C33 (SpecUpload): the thumbnail generate_thumbnail made for a relay is on
\* disk and attached at the start of every send attempt of that relay, the
\* second and the third included.
C33_AttachedEveryAttempt ==
    (upc = "send" /\ gen.result = "path")
        => /\ thumb_file
           /\ tries[Len(tries)].attached

\* C34 (Spec): when a direct retrieval returns a failure with its attempts
\* used up or after an error in the middle of the stream, no file written by
\* that retrieval is left at filepath.
C34_NoPartialFile ==
    (ret.strategy = "direct" /\ ret.result = Null
        /\ ret.cause \in {"NetworkError", "NotFound", "Other"})
    => ~ret.file

\* C35 (SpecCancel): no two direct-stream retrievals that have their
\* destination file open at the same time write to the same filepath,
\* whatever their URLs, within one output directory.
C35_DistinctPaths ==
    \A t1, t2 \in Tasks :
        (t1 # t2 /\ pc[t1] = "d_body" /\ pc[t2] = "d_body")
            => Filepaths(url[t1]) \cap Filepaths(url[t2]) = {}

\* C36 (FairGate): the retrieval engine has no deadlock.  Whoever holds the
\* gate or waits for it holds a slot, taken before; a call that returns has
\* left the gate and its queue, and gives its slot back in that step; in
\* every state with a pending call some pending call has a step to take; and,
\* the loop being fair and the fetches ending, every pending call returns.
C36_DeadlockFree ==
    /\ [](/\ lock # 0 => pc[lock] = "y_run"
          /\ \A k \in 1..Len(lockq) : pc[lockq[k]] = "wait_lock"
          /\ \A k \in 1..Len(semq) : pc[semq[k]] = "wait_sem"
          /\ sem + Cardinality(Holders) = SemaphoreSlots
          /\ (\E t \in Tasks : pc[t] # "idle")
                => ENABLED (\E t \in Tasks : Progress(t)))
    /\ [][\A t \in Tasks :
            (pc[t] \in {"wait_lock", "y_run"} /\ pc'[t] = "idle")
                => /\ lock' # t
                   /\ \A k \in 1..Len(lockq') : lockq'[k] # t
                   /\ sem' = sem + 1]_vars
    /\ \A t \in Tasks : (pc[t] # "idle") ~> (pc[t] = "idle")

\* Every coroutine has a call pending: one runs the extractor, two hold a
\* slot and wait for the gate, one waits for a slot.
C36_Witness ==
    /\ lock # 0
    /\ Len(lockq) = 2
    /\ Len(semq) = 1
    /\ \A t \in Tasks : pc[t] # "idle"

\* Retrievals actively fetching: the extractor thread runs, or a direct
\* stream is requested, read, or between two attempts.
Fetching == {t \in Tasks : pc[t] \in {"y_run", "d_get", "d_sleep", "d_body"}}

\* C37 (SpecConc): while fewer than 3 retrievals are actively fetching, a
\* direct-stream retrieval that has been issued and not yet admitted has a
\* free slot to take, it does not wait for an extractor-path retrieval to
\* finish; the retrievals queued on the extractor gate occupy no slot.
C37_DirectNotBehindGate ==
    /\ \A t \in Tasks :
          (DirectCall(t) /\ pc[t] = "wait_sem" /\ Cardinality(Fetching) < 3)
              => sem > 0
    /\ sem + Cardinality(Fetching) = SemaphoreSlots

\* C38 (SpecCancel): in every state another task can observe, each record of
\* active_downloads has status 'starting' or 'cancelled'; 'completed',
\* 'failed' and 'error' are written by the step that removes the record and
\* returns, so that nobody sees them; a record changes only by being made
\* with 'starting' by a call that begins, cancelled, or removed;
\* 'downloading' is never written.
C38_StatusesSeen ==
    /\ [](\A i \in Ids : active[i] \in {Absent, "starting", "cancelled"})
    /\ [](ret.id # 0 =>
            /\ ret.final \in {Absent, "completed", "failed", "error"}
            /\ ret.final = "completed" <=> ret.result = File
            /\ active[ret.id] = Absent)
    /\ [][\A i \in Ids :
            active'[i] # active[i] =>
                \/ active'[i] = "starting"
                     /\ \E t \in Tasks :
                           did'[t] = i /\ pc[t] \in {"idle", "wait_sem"}
                \/ active'[i] = "cancelled" /\ cret'.called /\ cret'.id = i
                \/ active'[i] = Absent /\ ret'.id = i]_vars

\* A retrieval returns its file, having written 'completed' into its record,
\* while the table shows a job cancelled and still running.
C38_Witness ==
    /\ ret.final = "completed"
    /\ ret.status = "starting"
    /\ \E i \in Ids : active[i] = "cancelled"

\* C39 (SpecTwin): the identities of the rate limiter are isolated.  Of two
\* runs that differ only in the is_allowed calls made for identity env.a,
\* under a window of at most one hour, every call for another identity
\* returns the same in both, and leaves that identity the same list.
C39_Isolated ==
    (lret.called /\ twin.called /\ lret.user # env.a)
        => /\ lret.result = twin.result
           /\ requests[lret.user] = twin.requests[lret.user]

\* The runs have drifted apart: a call for env.a was made in one run only,
\* the limiters swept at different times and hold different tables, and a
\* call for another identity is denied in both.
C39_Witness ==
    /\ lret.called /\ twin.called
    /\ lret.user # env.a
    /\ ~lret.result
    /\ last_cleanup # twin.last_cleanup
    /\ DOMAIN requests # DOMAIN twin.requests

\* C40 (SpecLimiter): the sweep runs in the first is_allowed call made more
\* than cleanup_interval seconds after the sweep before it (or after the
\* limiter was made), however long the time between them, gaps of more than
\* a day included, and last_cleanup is then the time of that call.
C40_SweepWhenDue ==
    [][(calls' # calls /\ now' - last_cleanup > cleanup_interval)
        => (lret'.swept /\ last_cleanup' = now')]_vars
====
